---------------------------- MODULE Spec2Model ----------------------------
(***************************************************************************)
(* A model of the TiKV admin backend (backend-go).                         *)
(*                                                                         *)
(* The repository holds two routers over the same tikv package:            *)
(*   - package main (main.go): handleXxx functions, registered by          *)
(*     main.go SetupRouter, reconfigured by handleUpdateClusterEndpoints;  *)
(*   - package api (pkg/api/handlers.go): KVController methods, registered *)
(*     by pkg/api/routes.go SetupRouter, initialised by                    *)
(*     tikv.InitializeTiKVClient (pkg/tikv/init.go).                       *)
(* A process serves one router; the variable router tells which one.       *)
(*                                                                         *)
(* Byte strings (keys, values) are sequences of numbers 0..255, text       *)
(* (endpoint lists) is a sequence of one-character strings.  The backend   *)
(* is an ordered map per mode (TiKV API v2 keeps the RawKV and the TxnKV   *)
(* keyspaces apart): rawStore and txnStore.                                *)
(***************************************************************************)
EXTENDS Integers, Sequences, FiniteSets, TLC

VARIABLES
    router,            \* which SetupRouter serves the process: "main" or "api"
    rawStore,          \* backend RawKV keyspace: wire key -> value
    txnStore,          \* backend TxnKV keyspace: wire key -> value
    RawKVClient,       \* tikv.RawKVClient  (client.go:18), 0 is nil
    TxnKVClient,       \* tikv.TxnKVClient  (client.go:19), 0 is nil
    rawKvClient,       \* main.rawKvClient  (main.go:23), 0 is nil
    txnClient,         \* main.txnClient    (main.go:24), its cli, 0 is nil
    tikv_rawKvClient,  \* tikv.rawKvClient  (init.go:10), the DAO's cli, 0 is nil
    tikv_txnKvClient,  \* tikv.txnKvClient  (init.go:11), the DAO's cli, 0 is nil
    closed,            \* the handles on which Close() was called
    nextHandle,        \* identity of the next handle object to be opened
    currentEndpoints,  \* main.currentEndpoints (main.go:25)
    batch,             \* the batch request being served (loop position, results)
    sweep,             \* the deleteAll request being served (cursor, counters)
    wireKeys,          \* keys and range bounds the last request sent to a handle
    resp,              \* the response of the last request
    clientMu,          \* tikv.clientMu (client.go:17): the request holding it, 0 if free
    inflight,          \* the requests being served at the same time, each at its step
    openedBy,          \* handle -> the reconfiguration request that opened it
    table              \* the state of the frontend's key table (KVTable.tsx)

vars == <<router, rawStore, txnStore, RawKVClient, TxnKVClient, rawKvClient,
          txnClient, tikv_rawKvClient, tikv_txnKvClient, closed, nextHandle,
          currentEndpoints, batch, sweep, wireKeys, resp,
          clientMu, inflight, openedBy, table>>

\* what the handlers served one at a time leave alone
concurrentVars == <<clientMu, inflight, openedBy, table>>

handleVars == <<RawKVClient, TxnKVClient, rawKvClient, txnClient,
                tikv_rawKvClient, tikv_txnKvClient, closed, nextHandle>>

-----------------------------------------------------------------------------
(* Bounds of the model.                                                    *)

\* Handle objects that may be opened in one behaviour.
MaxHandles == 6
\* Longest operation list of one atomic transaction request.
MaxTxnOps == 2
\* Longest operation list of one batch request.
MaxBatchOps == 2
\* Handle objects opened while the process makes its first connection.
MaxConnectHandles == 3
\* Keys asked for by one scan of the direct-mode deleteAll (1000 in
\* main.go:784 and handlers.go:977), scaled to the stores of the model.
RawBatchSize == 2
\* Keys deleted by one transaction of the transactional deleteAll (200 in
\* main.go:830), scaled to the stores of the model.
TxnBatchSize == 2
\* Deletions one deleteAll request may count before the model leaves it.
MaxSweepCount == 4

-----------------------------------------------------------------------------
(* Byte strings.                                                           *)

Nil == 0

\* []byte comparison (bytes.Compare < 0): the backend's key order.
RECURSIVE Less(_, _)
Less(a, b) ==
    IF b = <<>> THEN FALSE
    ELSE IF a = <<>> THEN TRUE
    ELSE IF Head(a) < Head(b) THEN TRUE
    ELSE IF Head(a) > Head(b) THEN FALSE
    ELSE Less(Tail(a), Tail(b))

Leq(a, b) == a = b \/ Less(a, b)

HasPrefix(k, p) == Len(k) >= Len(p) /\ SubSeq(k, 1, Len(p)) = p

\* dao.go:13  TiKVWebKeyPrefix = []byte("tikv_web_")
TiKVWebKeyPrefix == <<116, 105, 107, 118, 95, 119, 101, 98, 95>>

\* dao.go:95 / dao.go:145  append(TiKVWebKeyPrefix, key...)
makeKey(key) == TiKVWebKeyPrefix \o key

\* main.go:105  return []byte(key)
prefixedKey(key) == key

\* main.go:109  prefixedRange: <<startKey, endKey>>
prefixedRange(prefix) ==
    IF prefix # <<>>
    THEN <<prefix, prefix \o <<255>>>>
    ELSE <<<<>>, <<255, 255, 255, 255>>>>

-----------------------------------------------------------------------------
(* The backend: an ordered map, and a transaction's buffer over it.        *)

Present(store, k) == k \in DOMAIN store

\* rawkv.Client.Get / KVTxn.Get on the snapshot: an absent key reads as empty
StoreGet(store, k) == IF k \in DOMAIN store THEN store[k] ELSE <<>>

StorePut(store, k, v) ==
    [x \in DOMAIN store \cup {k} |-> IF x = k THEN v ELSE store[x]]

StoreDelete(store, k) == [x \in DOMAIN store \ {k} |-> store[x]]

\* the least key of a non-empty set of keys
MinKey(S) == CHOOSE k \in S : \A o \in S : Leq(k, o)

\* the keys of S in ascending byte order
RECURSIVE SortKeys(_)
SortKeys(S) ==
    IF S = {} THEN <<>>
    ELSE LET m == MinKey(S) IN <<m>> \o SortKeys(S \ {m})

Take(s, n) == SubSeq(s, 1, IF n < Len(s) THEN n ELSE Len(s))

\* rawkv.Client.Scan(startKey, endKey, limit) and the walk of KVTxn.Iter:
\* the keys of [startKey, endKey) in ascending order
RangeKeys(store, startKey, endKey) ==
    SortKeys({k \in DOMAIN store : Leq(startKey, k) /\ Less(k, endKey)})

Scan(store, startKey, endKey, limit) ==
    Take(RangeKeys(store, startKey, endKey), limit)

-----------------------------------------------------------------------------
(* Text: endpoint lists.                                                   *)

\* position of the first c in s, 0 when there is none
RECURSIVE IndexOf(_, _, _)
IndexOf(s, c, i) ==
    IF i > Len(s) THEN 0
    ELSE IF s[i] = c THEN i
    ELSE IndexOf(s, c, i + 1)

\* strings.Contains(s, c) for a one-character c
Contains(s, c) == IndexOf(s, c, 1) # 0

\* strings.Split(s, sep) for a one-character sep
RECURSIVE Split(_, _)
Split(s, sep) ==
    LET i == IndexOf(s, sep, 1) IN
    IF i = 0 THEN <<s>>
    ELSE <<SubSeq(s, 1, i - 1)>> \o Split(SubSeq(s, i + 1, Len(s)), sep)

\* strings.TrimSpace
RECURSIVE TrimLeft(_)
TrimLeft(s) ==
    IF s # <<>> /\ Head(s) = " " THEN TrimLeft(Tail(s)) ELSE s

RECURSIVE TrimRight(_)
TrimRight(s) ==
    IF s # <<>> /\ s[Len(s)] = " " THEN TrimRight(SubSeq(s, 1, Len(s) - 1)) ELSE s

TrimSpace(s) == TrimRight(TrimLeft(s))

\* main.go:124-133  the loop of parseEndpoints over the parts
RECURSIVE parseParts(_, _)
parseParts(parts, endpoints) ==
    IF parts = <<>> THEN [err |-> FALSE, endpoints |-> endpoints]
    ELSE LET endpoint == TrimSpace(Head(parts)) IN
         IF endpoint = <<>> THEN parseParts(Tail(parts), endpoints)
         ELSE IF ~Contains(endpoint, ":") THEN [err |-> TRUE, endpoints |-> <<>>]
         ELSE parseParts(Tail(parts), Append(endpoints, endpoint))

\* main.go:121  parseEndpoints
parseEndpoints(raw) ==
    LET r == parseParts(Split(raw, ","), <<>>) IN
    IF r.err THEN r
    ELSE IF Len(r.endpoints) = 0 THEN [err |-> TRUE, endpoints |-> <<>>]
    ELSE r

\* request bodies of PUT /cluster/endpoints
EndpointInputs ==
    { <<"a", ":", "1">>,
      <<"a", ":", "1", ",", " ", "b", ":", "2">>,
      <<" ", "b", ":", "2", " ", ",">>,
      <<"b">>,
      <<"a", ":", "1", ",", "b">>,
      <<" ", ",">>,
      <<>> }

\* the request body of the process's first PUT /cluster/endpoints
ConnectEndpoints == <<"a", ":", "1">>

\* handlers.go:928-932  the endpoints GetClusterStatus reports
apiEndpoints ==
    << <<"1","7","2",".","1","6",".","0",".","1","0",":","2","3","7","9">>,
       <<"1","7","2",".","1","6",".","0",".","2","0",":","2","3","7","9">>,
       <<"1","7","2",".","1","6",".","0",".","3","0",":","2","3","7","9">> >>

-----------------------------------------------------------------------------
(* Client lifecycle.                                                       *)

\* the tikv package's handle state as one value
Handles == [RawKVClient |-> RawKVClient, TxnKVClient |-> TxnKVClient,
            closed |-> closed, nextHandle |-> nextHandle]

\* client.go:24  NewRawKvClient: open, swap under clientMu, close the old one
NewRawKvClient(H, ok) ==
    IF ~ok THEN [err |-> TRUE, H |-> H]
    ELSE [err |-> FALSE,
          H |-> [H EXCEPT !.RawKVClient = H.nextHandle,
                          !.closed = H.closed \cup ({H.RawKVClient} \ {Nil}),
                          !.nextHandle = H.nextHandle + 1]]

\* client.go:59  NewTxnClient: open, swap under clientMu, close the old one
NewTxnClient(H, ok) ==
    IF ~ok THEN [err |-> TRUE, H |-> H]
    ELSE [err |-> FALSE,
          H |-> [H EXCEPT !.TxnKVClient = H.nextHandle,
                          !.closed = H.closed \cup ({H.TxnKVClient} \ {Nil}),
                          !.nextHandle = H.nextHandle + 1]]

\* main.go:70  InitializeTiKVClient: the handles and the two package
\* variables of main after the call
InitializeTiKVClient(rawOk, txnOk) ==
    LET r == NewRawKvClient(Handles, rawOk) IN
    IF r.err
    THEN [err |-> TRUE, H |-> r.H, rawKvClient |-> rawKvClient, txnClient |-> txnClient]
    ELSE LET t == NewTxnClient(r.H, txnOk) IN
         IF t.err
         THEN [err |-> TRUE, H |-> t.H,
               rawKvClient |-> r.H.RawKVClient, txnClient |-> txnClient]
         ELSE [err |-> FALSE, H |-> t.H,
               rawKvClient |-> r.H.RawKVClient, txnClient |-> t.H.TxnKVClient]

\* init.go:15  tikv.InitializeTiKVClient: the handles and the two DAO
\* variables of the tikv package after the call
tikvInitializeTiKVClient(rawOk, txnOk) ==
    LET r == NewRawKvClient(Handles, rawOk) IN
    IF r.err
    THEN [err |-> TRUE, H |-> r.H,
          rawKvClient |-> tikv_rawKvClient, txnKvClient |-> tikv_txnKvClient]
    ELSE LET t == NewTxnClient(r.H, txnOk) IN
         IF t.err
         THEN [err |-> TRUE, H |-> t.H,
               rawKvClient |-> r.H.RawKVClient, txnKvClient |-> tikv_txnKvClient]
         ELSE [err |-> FALSE, H |-> t.H,
               rawKvClient |-> r.H.RawKVClient, txnKvClient |-> t.H.TxnKVClient]

\* init.go:63  IsConnected
IsConnected ==
    /\ tikv_rawKvClient # Nil
    /\ tikv_txnKvClient # Nil
    /\ RawKVClient # Nil
    /\ TxnKVClient # Nil

-----------------------------------------------------------------------------
(* Responses.                                                              *)

NoResp ==
    [op |-> "none", mode |-> "", success |-> FALSE, status |-> 0,
     endpoints |-> <<>>, connected |-> FALSE, count |-> 0, value |-> <<>>,
     begun |-> 0, committed |-> 0, rolledBack |-> 0,
     \* what the request was, kept for the properties below
     n |-> 0, staged |-> 0, expected |-> << >>, absentDelete |-> FALSE,
     key |-> <<>>, written |-> <<>>, ops |-> <<>>, failed |-> FALSE,
     \* the response's Data holds a deletedCount
     counted |-> FALSE,
     \* BatchOperationData
     results |-> <<>>, successCount |-> 0, failureCount |-> 0,
     \* PaginatedResult, and whether the client of the mode was there
     items |-> <<>>, total |-> 0, totalPages |-> 0, page |-> 0, limit |-> 0,
     there |-> FALSE,
     \* the page and limit parameters of the request
     query |-> <<>>,
     \* the numbers the scan computed from them
     slice |-> [offset |-> 0, bound |-> 0, taken |-> FALSE,
                start |-> 0, end |-> 0, scanned |-> 0]]

\* the request being served by the batch handler: n operations, of which
\* ops have gone through the loop, and the results collected so far
NoBatch == [active |-> FALSE, n |-> 0, ops |-> <<>>, results |-> <<>>,
            \* the calls that the operation served last has made
            calls |-> <<>>]

\* the deleteAll request being served: its mode, the start of its next scan,
\* its counters, and the number m of keys its mode held when it began
NoSweep == [active |-> FALSE, mode |-> "", scanStart |-> <<>>,
            deletedCount |-> 0, totalDeleted |-> 0, m |-> 0, failed |-> FALSE]

\* no request is inside a handler's loop
Idle == ~batch.active /\ ~sweep.active

\* Requests that are served at the same time.
MaxRequests == 3

Requests == 1..MaxRequests

\* a request slot that serves nothing; of a request being served: its kind,
\* the statement it is at (pc), its parameters (endpoints, mode, key,
\* value), its local variables (new: rawClient / txnClient of
\* NewRawKvClient / NewTxnClient, old: oldClient, raw and txn: the handles a
\* handler has read, seen: existingValue), and what happened to it: whether it
\* read a handle variable without holding clientMu, whether it called a
\* closed handle, whether a transaction committed a write of its key after
\* its Begin, and the status of its response
NoRequest ==
    [kind |-> "none", pc |-> "idle", endpoints |-> <<>>,
     mode |-> "", key |-> <<>>, value |-> <<>>,
     new |-> Nil, old |-> Nil, raw |-> Nil, txn |-> Nil, seen |-> <<>>,
     unlockedRead |-> FALSE, onClosed |-> FALSE, conflict |-> FALSE,
     status |-> 0]

\* KVTable.tsx:31-37, 53  the state of the table after its construction, the
\* scans it has issued (issued: their number, pending: those not answered)
\* and the scan whose response it shows (shown, 0 for none)
NoTable ==
    [data |-> <<>>, total |-> 0, current |-> 1, pageSize |-> 100,
     prefix |-> <<>>, searchInput |-> <<>>,
     debounceRef |-> [set |-> FALSE, value |-> <<>>],
     issued |-> 0, pending |-> {}, shown |-> 0]

-----------------------------------------------------------------------------
(* Initial state: main() opens no client (main.go:1147), the package       *)
(* variables are nil and the stores hold nothing of this process.          *)

Init ==
    /\ router \in {"main", "api"}
    /\ rawStore = << >>
    /\ txnStore = << >>
    /\ RawKVClient = Nil
    /\ TxnKVClient = Nil
    /\ rawKvClient = Nil
    /\ txnClient = Nil
    /\ tikv_rawKvClient = Nil
    /\ tikv_txnKvClient = Nil
    /\ closed = {}
    /\ nextHandle = 1
    /\ currentEndpoints = <<>>
    /\ batch = NoBatch
    /\ sweep = NoSweep
    /\ wireKeys = {}
    /\ resp = NoResp
    /\ clientMu = 0
    /\ inflight = [p \in Requests |-> NoRequest]
    /\ openedBy = << >>
    /\ table = NoTable

-----------------------------------------------------------------------------
(* Reconfiguration and cluster status.                                     *)

\* handleUpdateClusterEndpoints with the endpoint list recorded as soon as it
\* has been parsed, before the clients are opened
handleUpdateClusterEndpoints_RecordFirst(raw, rawOk, txnOk) ==
    /\ router = "main"
    /\ Idle
    /\ nextHandle < MaxHandles
    /\ LET p == parseEndpoints(raw) IN
       IF p.err
       THEN /\ resp' = [NoResp EXCEPT !.op = "reconfigure", !.status = 400]
            /\ UNCHANGED <<handleVars, currentEndpoints>>
       ELSE LET i == InitializeTiKVClient(rawOk, txnOk) IN
            /\ RawKVClient' = i.H.RawKVClient
            /\ TxnKVClient' = i.H.TxnKVClient
            /\ closed' = i.H.closed
            /\ nextHandle' = i.H.nextHandle
            /\ rawKvClient' = i.rawKvClient
            /\ txnClient' = i.txnClient
            /\ UNCHANGED <<tikv_rawKvClient, tikv_txnKvClient>>
            /\ currentEndpoints' = p.endpoints
            /\ IF i.err
               THEN resp' = [NoResp EXCEPT !.op = "reconfigure", !.status = 503]
               ELSE resp' = [NoResp EXCEPT !.op = "reconfigure", !.success = TRUE,
                                           !.status = 200,
                                           !.endpoints = p.endpoints,
                                           !.connected = TRUE]
    /\ wireKeys' = {}
    /\ UNCHANGED <<router, concurrentVars, rawStore, txnStore, batch, sweep>>

\* main.go:970  handleUpdateClusterEndpoints.  raw is the request's endpoint
\* list; rawOk and txnOk tell whether the two opens reach the cluster.
handleUpdateClusterEndpoints(raw, rawOk, txnOk) ==
    /\ router = "main"
    /\ Idle
    /\ nextHandle < MaxHandles
    /\ LET p == parseEndpoints(raw) IN
       IF p.err
       THEN /\ resp' = [NoResp EXCEPT !.op = "reconfigure", !.status = 400]
            /\ UNCHANGED <<handleVars, currentEndpoints>>
       ELSE LET i == InitializeTiKVClient(rawOk, txnOk) IN
            /\ RawKVClient' = i.H.RawKVClient
            /\ TxnKVClient' = i.H.TxnKVClient
            /\ closed' = i.H.closed
            /\ nextHandle' = i.H.nextHandle
            /\ rawKvClient' = i.rawKvClient
            /\ txnClient' = i.txnClient
            /\ UNCHANGED <<tikv_rawKvClient, tikv_txnKvClient>>
            /\ IF i.err
               THEN /\ resp' = [NoResp EXCEPT !.op = "reconfigure", !.status = 503]
                    /\ UNCHANGED currentEndpoints
               ELSE /\ currentEndpoints' = p.endpoints
                    /\ resp' = [NoResp EXCEPT !.op = "reconfigure", !.success = TRUE,
                                              !.status = 200,
                                              !.endpoints = p.endpoints,
                                              !.connected = TRUE]
    /\ wireKeys' = {}
    /\ UNCHANGED <<router, concurrentVars, rawStore, txnStore, batch, sweep>>

\* init.go:15  tikv.InitializeTiKVClient, the (re)initialisation of the
\* clients the api router works with
apiInitializeTiKVClient(rawOk, txnOk) ==
    /\ router = "api"
    /\ Idle
    /\ nextHandle < MaxHandles
    /\ LET i == tikvInitializeTiKVClient(rawOk, txnOk) IN
       /\ RawKVClient' = i.H.RawKVClient
       /\ TxnKVClient' = i.H.TxnKVClient
       /\ closed' = i.H.closed
       /\ nextHandle' = i.H.nextHandle
       /\ tikv_rawKvClient' = i.rawKvClient
       /\ tikv_txnKvClient' = i.txnKvClient
       /\ resp' = [NoResp EXCEPT !.op = "reconfigure", !.success = ~i.err,
                                 !.status = IF i.err THEN 503 ELSE 200]
    /\ wireKeys' = {}
    /\ UNCHANGED <<router, concurrentVars, rawStore, txnStore, rawKvClient, txnClient,
                   currentEndpoints, batch, sweep>>

\* what GET /cluster reports in the current state:
\* main.go:953 handleGetClusterStatus, handlers.go:927 GetClusterStatus
StatusEndpoints == IF router = "main" THEN currentEndpoints ELSE apiEndpoints

StatusConnected == IF router = "main" THEN TRUE ELSE IsConnected

\* main.go:953 / handlers.go:927  GET /cluster
GetClusterStatus ==
    /\ Idle
    /\ resp' = [NoResp EXCEPT !.op = "status", !.success = TRUE, !.status = 200,
                              !.endpoints = StatusEndpoints,
                              !.connected = StatusConnected]
    /\ wireKeys' = {}
    /\ UNCHANGED <<router, concurrentVars, rawStore, txnStore, handleVars, currentEndpoints, batch, sweep>>

-----------------------------------------------------------------------------
(* Requests' keys and values.                                              *)

k1 == <<107, 49>>          \* "k1"
k2 == <<107, 50>>          \* "k2"
v1 == <<118, 49>>          \* "v1"
v2 == <<118, 50>>          \* "v2"

Keys == {k1, k2}
Values == {v1}

\* operations of POST /transaction: models.AtomicOperation (type, key, value)
TxnOps ==
    [type : {"put"}, key : Keys, value : Values \cup {<<>>}]
        \cup [type : {"delete"}, key : Keys, value : {<<>>}]

RECURSIVE SeqsUpTo(_, _)
SeqsUpTo(S, n) ==
    IF n = 0 THEN {<<>>}
    ELSE LET shorter == SeqsUpTo(S, n - 1) IN
         shorter \cup {Append(s, x) : s \in {t \in shorter : Len(t) = n - 1}, x \in S}

\* binding:"required,min=1"
TxnOpLists == SeqsUpTo(TxnOps, MaxTxnOps) \ {<<>>}

\* where the backend fails during one request: nowhere, at Begin, at the
\* Set/Delete of operation i, or at Commit
Failures(n) ==
    {[at |-> "none", i |-> 0], [at |-> "begin", i |-> 0], [at |-> "commit", i |-> 0]}
        \cup {[at |-> "stage", i |-> j] : j \in 1..n}

-----------------------------------------------------------------------------
(* Atomic transaction.                                                     *)

\* KVTxn.Commit: the buffered mutations reach the store in one step; a
\* buffered empty value is a delete
ApplyBuffer(store, buf) ==
    LET dels == {k \in DOMAIN buf : buf[k] = <<>>}
        puts == DOMAIN buf \ dels
    IN [k \in (DOMAIN store \cup puts) \ dels |->
            IF k \in puts THEN buf[k] ELSE store[k]]

\* handlers.go:837-870  the loop of AtomicTransaction from operation i on;
\* buf is the transaction's buffer, status 0 means every operation was staged
RECURSIVE stageOps(_, _, _, _, _)
stageOps(ops, i, buf, fail, keys) ==
    IF i > Len(ops) THEN [status |-> 0, buf |-> buf, staged |-> i - 1, keys |-> keys]
    ELSE LET op == ops[i] IN
         IF op.type = "put" /\ op.value = <<>>
         THEN [status |-> 400, buf |-> buf, staged |-> i - 1, keys |-> keys]
         ELSE IF fail.at = "stage" /\ fail.i = i
         THEN [status |-> 500, buf |-> buf, staged |-> i - 1,
               keys |-> keys \cup {makeKey(op.key)}]
         ELSE stageOps(ops, i + 1,
                       StorePut(buf, makeKey(op.key),
                                IF op.type = "put" THEN op.value ELSE <<>>),
                       fail, keys \cup {makeKey(op.key)})

\* AtomicTransaction with every operation committed as it is staged, the way
\* the batch handler treats its operations
AtomicTransactionRun_EachCommitted(store, ops, fail) ==
    IF fail.at = "begin"
    THEN [status |-> 500, store |-> store, staged |-> 0, keys |-> {},
          begun |-> 0, committed |-> 0, rolledBack |-> 0]
    ELSE LET s == stageOps(ops, 1, << >>, fail, {}) IN
         IF s.status # 0
         THEN [status |-> s.status, store |-> ApplyBuffer(store, s.buf),
               staged |-> s.staged, keys |-> s.keys,
               begun |-> 1, committed |-> 0, rolledBack |-> 1]
         ELSE IF fail.at = "commit"
         THEN [status |-> 500, store |-> store, staged |-> s.staged,
               keys |-> s.keys, begun |-> 1, committed |-> 0, rolledBack |-> 0]
         ELSE [status |-> 200, store |-> ApplyBuffer(store, s.buf),
               staged |-> s.staged, keys |-> s.keys,
               begun |-> 1, committed |-> 1, rolledBack |-> 0]

\* handlers.go:827-894  AtomicTransaction once the client is there: Begin,
\* the loop (Rollback on its failures), Commit
AtomicTransactionRun(store, ops, fail) ==
    IF fail.at = "begin"
    THEN [status |-> 500, store |-> store, staged |-> 0, keys |-> {},
          begun |-> 0, committed |-> 0, rolledBack |-> 0]
    ELSE LET s == stageOps(ops, 1, << >>, fail, {}) IN
         IF s.status # 0
         THEN [status |-> s.status, store |-> store, staged |-> s.staged,
               keys |-> s.keys, begun |-> 1, committed |-> 0, rolledBack |-> 1]
         ELSE IF fail.at = "commit"
         THEN [status |-> 500, store |-> store, staged |-> s.staged,
               keys |-> s.keys, begun |-> 1, committed |-> 0, rolledBack |-> 0]
         ELSE [status |-> 200, store |-> ApplyBuffer(store, s.buf),
               staged |-> s.staged, keys |-> s.keys,
               begun |-> 1, committed |-> 1, rolledBack |-> 0]

\* the store after the operations are applied one after the other
RECURSIVE ApplyInOrder(_, _)
ApplyInOrder(store, ops) ==
    IF ops = <<>> THEN store
    ELSE ApplyInOrder(IF Head(ops).type = "put"
                      THEN StorePut(store, makeKey(Head(ops).key), Head(ops).value)
                      ELSE StoreDelete(store, makeKey(Head(ops).key)),
                      Tail(ops))

\* the request deletes a key that the store does not hold
DeletesAbsent(store, ops) ==
    \E i \in 1..Len(ops) :
        ops[i].type = "delete" /\ ~Present(store, makeKey(ops[i].key))

\* handlers.go:806  AtomicTransaction
AtomicTransaction(ops, fail) ==
    /\ router = "api"
    /\ Idle
    /\ IF tikv_txnKvClient = Nil
       THEN /\ resp' = [NoResp EXCEPT !.op = "transaction", !.status = 503,
                                      !.n = Len(ops),
                                      !.absentDelete = DeletesAbsent(txnStore, ops)]
            /\ wireKeys' = {}
            /\ UNCHANGED txnStore
       ELSE \E r \in {AtomicTransactionRun(txnStore, ops, fail)} :
            /\ txnStore' = r.store
            /\ wireKeys' = r.keys
            /\ resp' = [NoResp EXCEPT !.op = "transaction",
                                      !.success = (r.status = 200),
                                      !.status = r.status,
                                      !.count = IF r.status = 200 THEN Len(ops) ELSE 0,
                                      !.n = Len(ops),
                                      !.staged = r.staged,
                                      !.expected = ApplyInOrder(txnStore, ops),
                                      !.absentDelete = DeletesAbsent(txnStore, ops),
                                      !.begun = r.begun,
                                      !.committed = r.committed,
                                      !.rolledBack = r.rolledBack]
    /\ UNCHANGED <<router, concurrentVars, rawStore, handleVars, currentEndpoints, batch, sweep>>

\* main.go:928  handleAtomicTransaction: answers success, reads nothing of
\* the request and calls no client
handleAtomicTransaction(ops) ==
    /\ router = "main"
    /\ Idle
    /\ resp' = [NoResp EXCEPT !.op = "transaction", !.success = TRUE,
                              !.status = 200, !.n = Len(ops),
                              !.expected = ApplyInOrder(txnStore, ops),
                              !.absentDelete = DeletesAbsent(txnStore, ops)]
    /\ wireKeys' = {}
    /\ UNCHANGED <<router, concurrentVars, rawStore, txnStore, handleVars, currentEndpoints, batch, sweep>>

-----------------------------------------------------------------------------
(* Batch operations.                                                       *)

\* operations of POST /batch: Operation (type, key, value)
BatchOps == [type : {"rawkv", "txn"}, key : Keys, value : Values \cup {<<>>}]

\* the calls one pass of the loop makes for op, each of which may fail
BatchFailuresOf(op) ==
    {"none", "write"}
        \cup (IF op.value = <<>> THEN {"read"} ELSE {})
        \cup (IF op.type = "txn" THEN {"begin", "commit"} ELSE {})

\* a call to a client or to a transaction, and whether it returned no error
Call(name, ok) == [call |-> name, ok |-> ok]

\* main.go:531-660 / handlers.go:662-771  one pass of the loop for op, the
\* clients being there or not, key the key that is sent to the client; calls
\* are the calls it makes, in order
BatchOp(op, fail, rawThere, txnThere, key) ==
    LET operationType == IF op.value = <<>> THEN "delete" ELSE "put"
        result(ok, error) == [key |-> op.key, operation |-> operationType,
                              success |-> ok, error |-> error]
        out(res, raw, txn, keys, calls) ==
            [result |-> res, rawStore |-> raw, txnStore |-> txn, keys |-> keys,
             calls |-> calls]
        found(store) == fail # "read" /\ StoreGet(store, key) # <<>>
    IN
    IF op.type = "rawkv"
    THEN IF ~rawThere
         THEN out(result(FALSE, "not initialized"), rawStore, txnStore, {}, <<>>)
         ELSE IF operationType = "put"
         THEN IF fail = "write"
              THEN out(result(FALSE, "err"), rawStore, txnStore, {key},
                       <<Call("Put", FALSE)>>)
              ELSE out(result(TRUE, ""), StorePut(rawStore, key, op.value),
                       txnStore, {key}, <<Call("Put", TRUE)>>)
         ELSE IF ~found(rawStore)
              THEN out(result(FALSE, "Key not found"), rawStore, txnStore, {key},
                       <<Call("Get", fail # "read")>>)
              ELSE IF fail = "write"
              THEN out(result(FALSE, "err"), rawStore, txnStore, {key},
                       <<Call("Get", TRUE), Call("Delete", FALSE)>>)
              ELSE out(result(TRUE, ""), StoreDelete(rawStore, key), txnStore, {key},
                       <<Call("Get", TRUE), Call("Delete", TRUE)>>)
    ELSE IF ~txnThere
         THEN out(result(FALSE, "not initialized"), rawStore, txnStore, {}, <<>>)
         ELSE IF fail = "begin"
         THEN out(result(FALSE, "Failed to begin transaction"), rawStore, txnStore, {},
                  <<Call("Begin", FALSE)>>)
         ELSE IF operationType = "put"
         THEN IF fail = "write"
              THEN out(result(FALSE, "err"), rawStore, txnStore, {key},
                       <<Call("Begin", TRUE), Call("Set", FALSE),
                         Call("Rollback", TRUE)>>)
              ELSE IF fail = "commit"
              THEN out(result(FALSE, "Failed to commit transaction"),
                       rawStore, txnStore, {key},
                       <<Call("Begin", TRUE), Call("Set", TRUE),
                         Call("Commit", FALSE)>>)
              ELSE out(result(TRUE, ""), rawStore,
                       StorePut(txnStore, key, op.value), {key},
                       <<Call("Begin", TRUE), Call("Set", TRUE),
                         Call("Commit", TRUE)>>)
         ELSE IF ~found(txnStore)
              THEN out(result(FALSE, "Key not found"), rawStore, txnStore, {key},
                       <<Call("Begin", TRUE), Call("Get", fail # "read"),
                         Call("Rollback", TRUE)>>)
              ELSE IF fail = "write"
              THEN out(result(FALSE, "err"), rawStore, txnStore, {key},
                       <<Call("Begin", TRUE), Call("Get", TRUE),
                         Call("Delete", FALSE), Call("Rollback", TRUE)>>)
              ELSE IF fail = "commit"
              THEN out(result(FALSE, "Failed to commit transaction"),
                       rawStore, txnStore, {key},
                       <<Call("Begin", TRUE), Call("Get", TRUE),
                         Call("Delete", TRUE), Call("Commit", FALSE)>>)
              ELSE out(result(TRUE, ""), rawStore, StoreDelete(txnStore, key), {key},
                       <<Call("Begin", TRUE), Call("Get", TRUE),
                         Call("Delete", TRUE), Call("Commit", TRUE)>>)

\* main.go:547, 608 / handlers.go:674, 710  the client of an operation's
\* mode is there
BatchClientThere(type) ==
    IF router = "main"
    THEN IF type = "rawkv" THEN rawKvClient # Nil ELSE txnClient # Nil
    ELSE IF type = "rawkv" THEN tikv_rawKvClient # Nil
                           ELSE tikv_txnKvClient # Nil

\* the loop body of handleBatchOperations without its tests for a missing
\* client: the operation is sent whatever the clients are
handleBatchOperationsOp_NoClientTest(op, fail) ==
    BatchOp(op, fail, TRUE, TRUE, prefixedKey(op.key))

\* the loop body of handleBatchOperations with a delete that is sent and
\* reported as done whatever its read returned
handleBatchOperationsOp_DeleteUnread(op, fail) ==
    LET r == BatchOp(op, fail, rawKvClient # Nil /\ RawKVClient # Nil,
                     txnClient # Nil /\ TxnKVClient # Nil, prefixedKey(op.key))
    IN IF r.result.error = "Key not found"
       THEN [r EXCEPT !.result.success = TRUE,
                      !.result.error = "",
                      !.calls = Append(SubSeq(@, 1, Len(@) - 1),
                                       Call("Delete", TRUE))]
       ELSE r

\* main.go:531-660  the loop body of handleBatchOperations
handleBatchOperationsOp(op, fail) ==
    BatchOp(op, fail, rawKvClient # Nil /\ RawKVClient # Nil,
            txnClient # Nil /\ TxnKVClient # Nil, prefixedKey(op.key))

\* the loop body of BatchOperations with every operation that reaches a
\* client served as a put, an empty value included
BatchOperationsOp_PutEmpty(op, fail) ==
    LET r == BatchOp(op, fail, tikv_rawKvClient # Nil, tikv_txnKvClient # Nil,
                     makeKey(op.key))
    IN IF op.value = <<>> /\ r.keys # {}
       THEN [r EXCEPT !.result.operation = "put",
                      !.result.success = TRUE,
                      !.result.error = "",
                      !.rawStore = IF op.type = "rawkv"
                                   THEN StorePut(rawStore, makeKey(op.key), <<>>)
                                   ELSE rawStore,
                      !.txnStore = IF op.type = "txn"
                                   THEN StorePut(txnStore, makeKey(op.key), <<>>)
                                   ELSE txnStore]
       ELSE r

\* handlers.go:662-771  the loop body of BatchOperations
BatchOperationsOp(op, fail) ==
    BatchOp(op, fail, tikv_rawKvClient # Nil, tikv_txnKvClient # Nil,
            makeKey(op.key))

\* main.go:519-530 / handlers.go:648-660  a batch request of n operations
\* is bound and its loop entered
BatchBegin(n) ==
    /\ Idle
    /\ batch' = [NoBatch EXCEPT !.active = TRUE, !.n = n]
    /\ resp' = NoResp
    /\ wireKeys' = {}
    /\ UNCHANGED <<router, concurrentVars, rawStore, txnStore, handleVars, currentEndpoints, sweep>>

\* the loop of a batch with the result of an operation that found no client
\* left out of the results
BatchStep_SkipUninitialized(op, fail) ==
    /\ batch.active
    /\ Len(batch.ops) < batch.n
    /\ \E r \in {IF router = "main" THEN handleBatchOperationsOp(op, fail)
                                    ELSE BatchOperationsOp(op, fail)} :
          /\ rawStore' = r.rawStore
          /\ txnStore' = r.txnStore
          /\ wireKeys' = wireKeys \cup r.keys
          /\ batch' = [batch EXCEPT !.ops = Append(@, op),
                                    !.results = IF r.result.error = "not initialized"
                                                THEN @ ELSE Append(@, r.result),
                                    !.calls = r.calls]
    /\ UNCHANGED <<router, concurrentVars, handleVars, currentEndpoints, sweep, resp>>

\* main.go:531-660 / handlers.go:662-771  the loop serves the next operation
\* of the request and appends its result
BatchStep(op, fail) ==
    /\ batch.active
    /\ Len(batch.ops) < batch.n
    /\ \E r \in {IF router = "main" THEN handleBatchOperationsOp(op, fail)
                                    ELSE BatchOperationsOp(op, fail)} :
          /\ rawStore' = r.rawStore
          /\ txnStore' = r.txnStore
          /\ wireKeys' = wireKeys \cup r.keys
          /\ batch' = [batch EXCEPT !.ops = Append(@, op),
                                    !.results = Append(@, r.result),
                                    !.calls = r.calls]
    /\ UNCHANGED <<router, concurrentVars, handleVars, currentEndpoints, sweep, resp>>

\* number of results with the given outcome
CountResults(results, ok) ==
    Cardinality({i \in 1..Len(results) : results[i].success = ok})

\* main.go:663-692 / handlers.go:774-795  the loop is over: the results are
\* counted and the response is sent
BatchEnd ==
    /\ batch.active
    /\ Len(batch.ops) = batch.n
    /\ batch' = NoBatch
    /\ resp' = [NoResp EXCEPT !.op = "batch", !.success = TRUE, !.status = 200,
                              !.n = batch.n, !.ops = batch.ops,
                              !.results = batch.results,
                              !.successCount = CountResults(batch.results, TRUE),
                              !.failureCount = CountResults(batch.results, FALSE)]
    /\ UNCHANGED <<router, concurrentVars, rawStore, txnStore, handleVars, currentEndpoints,
                   sweep, wireKeys>>

-----------------------------------------------------------------------------
(* Reading one key.                                                        *)

GetModes == {"rawkv", "txn"}

GetFailures == {"none", "begin", "read", "commit"}

\* main.go:287  handleGetKV: answers success with an empty value, whatever
\* the key and the store
handleGetKV(key, mode) ==
    /\ router = "main"
    /\ Idle
    /\ resp' = [NoResp EXCEPT !.op = "get", !.mode = mode, !.key = key,
                              !.success = TRUE, !.status = 200, !.value = <<>>]
    /\ wireKeys' = {}
    /\ UNCHANGED <<router, concurrentVars, rawStore, txnStore, handleVars, currentEndpoints, batch, sweep>>

\* handlers.go:23  GetKV
GetKV(key, mode, fail) ==
    /\ router = "api"
    /\ Idle
    /\ LET answer(status, value) ==
               [NoResp EXCEPT !.op = "get", !.mode = mode, !.key = key,
                              !.success = (status = 200), !.status = status,
                              !.value = value]
           store == IF mode = "rawkv" THEN rawStore ELSE txnStore
           there == IF mode = "rawkv" THEN tikv_rawKvClient # Nil
                                      ELSE tikv_txnKvClient # Nil
           result == StoreGet(store, makeKey(key))
       IN
       IF ~there
       THEN resp' = answer(503, <<>>) /\ wireKeys' = {}
       ELSE IF mode = "txn" /\ fail = "begin"
       THEN resp' = answer(500, <<>>) /\ wireKeys' = {}
       ELSE /\ wireKeys' = {makeKey(key)}
            /\ IF fail = "read" \/ (mode = "txn" /\ fail = "commit")
               THEN resp' = answer(500, <<>>)
               ELSE IF result = <<>>
               THEN resp' = answer(404, <<>>)
               ELSE resp' = answer(200, result)
    /\ UNCHANGED <<router, concurrentVars, rawStore, txnStore, handleVars, currentEndpoints, batch, sweep>>

-----------------------------------------------------------------------------
(* Creating, updating and deleting one key.                                *)

CreateFailures == {"none", "begin", "read", "write", "commit"}

\* the key a router sends to the client for the key of a request
wireKey(key) == IF router = "main" THEN prefixedKey(key) ELSE makeKey(key)

\* the store of a mode
StoreOf(mode) == IF mode = "rawkv" THEN rawStore ELSE txnStore

\* the response of a single-key write, with what the request did
WriteAnswer(op, key, value, mode, fail, status, ok, begun, committed) ==
    [NoResp EXCEPT !.op = op, !.mode = mode, !.key = key, !.written = value,
                   !.success = ok, !.status = status,
                   !.failed = (fail # "none"),
                   !.begun = begun, !.committed = committed]

\* main.go:318-362, 380-424, 428-482  the body that handleCreateKV,
\* handleUpdateKV and handleDeleteKV share: one Put or Delete on the raw
\* client, or Begin, Set or Delete, Commit on the transaction client
mainWriteKV(op, key, value, mode, fail) ==
    /\ router = "main"
    /\ Idle
    /\ LET keyBytes == prefixedKey(key)
           after(store) == IF op = "delete" THEN StoreDelete(store, keyBytes)
                                            ELSE StorePut(store, keyBytes, value)
           began == IF fail = "begin" THEN 0 ELSE 1
           done == IF fail \in {"begin", "write", "commit"} THEN 0 ELSE 1
           answer(status, b, c) ==
               WriteAnswer(op, key, value, mode, fail, status, status = 200, b, c)
       IN
       IF mode = "rawkv" /\ rawKvClient # Nil
       THEN /\ wireKeys' = {keyBytes}
            /\ UNCHANGED txnStore
            /\ IF fail = "write"
               THEN resp' = answer(500, 0, 0) /\ UNCHANGED rawStore
               ELSE resp' = answer(200, 0, 0) /\ rawStore' = after(rawStore)
       ELSE IF mode = "txn" /\ txnClient # Nil
       THEN \* txn, err := txnClient.Begin() declares a new err: what goes wrong
            \* in the block never reaches the check after it
            /\ wireKeys' = IF fail = "begin" THEN {} ELSE {keyBytes}
            /\ UNCHANGED rawStore
            /\ resp' = answer(200, began, done)
            /\ IF done = 0
               THEN UNCHANGED txnStore
               ELSE txnStore' = after(txnStore)
       ELSE /\ resp' = answer(400, 0, 0)
            /\ wireKeys' = {}
            /\ UNCHANGED <<rawStore, txnStore>>
    /\ UNCHANGED <<router, concurrentVars, handleVars, currentEndpoints, batch, sweep>>

\* main.go:303  handleCreateKV
handleCreateKV(key, value, mode, fail) ==
    mainWriteKV("create", key, value, mode, fail)

\* main.go:365  handleUpdateKV
handleUpdateKV(key, value, mode, fail) ==
    mainWriteKV("update", key, value, mode, fail)

\* main.go:427  handleDeleteKV
handleDeleteKV(key, mode, fail) ==
    mainWriteKV("delete", key, <<>>, mode, fail)

\* handlers.go:264-346, 367-449, 471-553  the body that CreateKV, UpdateKV
\* and DeleteKV share: the client check, Begin, the read of the key that
\* decides whether the request is refused (CreateKV: the key holds a value,
\* 409; UpdateKV and DeleteKV: it holds none or the read failed, 404), the
\* Put/Set or Delete, Commit
apiWriteKV(op, key, value, mode, fail) ==
    /\ router = "api"
    /\ Idle
    /\ LET realKey == makeKey(key)
           store == StoreOf(mode)
           there == IF mode = "rawkv" THEN tikv_rawKvClient # Nil
                                      ELSE tikv_txnKvClient # Nil
           existingValue == StoreGet(store, realKey)
           refused == IF op = "create"
                      THEN fail # "read" /\ existingValue # <<>>
                      ELSE fail = "read" \/ existingValue = <<>>
           refusedStatus == IF op = "create" THEN 409 ELSE 404
           okStatus == IF op = "create" THEN 201 ELSE 200
           after == IF op = "delete" THEN StoreDelete(store, realKey)
                                     ELSE StorePut(store, realKey, value)
           began == IF mode = "txn" THEN 1 ELSE 0
           answer(status, b, c) ==
               WriteAnswer(op, key, value, mode, fail, status, status = okStatus, b, c)
       IN
       IF ~there
       THEN resp' = answer(503, 0, 0) /\ wireKeys' = {}
               /\ UNCHANGED <<rawStore, txnStore>>
       ELSE IF mode = "txn" /\ fail = "begin"
       THEN resp' = answer(500, 0, 0) /\ wireKeys' = {}
               /\ UNCHANGED <<rawStore, txnStore>>
       ELSE /\ wireKeys' = {realKey}
            /\ IF refused
               THEN resp' = answer(refusedStatus, began, 0)
                       /\ UNCHANGED <<rawStore, txnStore>>
               ELSE IF fail = "write" \/ (mode = "txn" /\ fail = "commit")
               THEN resp' = answer(500, began, 0) /\ UNCHANGED <<rawStore, txnStore>>
               ELSE /\ resp' = answer(okStatus, began, began)
                    /\ IF mode = "rawkv"
                       THEN rawStore' = after /\ UNCHANGED txnStore
                       ELSE txnStore' = after /\ UNCHANGED rawStore
    /\ UNCHANGED <<router, concurrentVars, handleVars, currentEndpoints, batch, sweep>>

\* handlers.go:253  CreateKV
CreateKV(key, value, mode, fail) ==
    apiWriteKV("create", key, value, mode, fail)

\* handlers.go:356  UpdateKV
UpdateKV(key, value, mode, fail) ==
    apiWriteKV("update", key, value, mode, fail)

\* handlers.go:459  DeleteKV
DeleteKV(key, mode, fail) ==
    apiWriteKV("delete", key, <<>>, mode, fail)

\* Longest key list of one batch delete request.
MaxDeleteKeys == 2

\* the key lists of batch delete requests
DeleteKeyLists == SeqsUpTo(Keys, MaxDeleteKeys)

\* the backend calls that may fail for one key of a batch delete
BatchDeleteFailures == {"none", "begin", "write", "commit"}

\* main.go:721  the loop of handleBatchDeleteKVs from key i on; the key at
\* failAt meets the failure fail.  In transactional mode
\* txn, err := txnClient.Begin() declares a new err, the err that is tested
\* after the branch stays nil and the key is counted as deleted
RECURSIVE batchDeleteLoop(_, _, _, _, _, _)
batchDeleteLoop(keys, i, mode, failAt, fail, acc) ==
    IF i > Len(keys) THEN acc
    ELSE LET keyBytes == prefixedKey(keys[i])
             f == IF i = failAt THEN fail ELSE "none"
             began == f # "begin"
             done == f \notin {"begin", "write", "commit"}
         IN
         IF mode = "rawkv" /\ rawKvClient # Nil
         THEN IF f = "write"
              THEN batchDeleteLoop(keys, i + 1, mode, failAt, fail,
                       [acc EXCEPT !.errors = @ + 1, !.wire = @ \cup {keyBytes}])
              ELSE batchDeleteLoop(keys, i + 1, mode, failAt, fail,
                       [acc EXCEPT !.deletedCount = @ + 1,
                                   !.wire = @ \cup {keyBytes},
                                   !.raw = StoreDelete(@, keyBytes)])
         ELSE IF mode = "txn" /\ txnClient # Nil
         THEN batchDeleteLoop(keys, i + 1, mode, failAt, fail,
                  [acc EXCEPT !.deletedCount = @ + 1,
                              !.begun = IF began THEN @ + 1 ELSE @,
                              !.committed = IF done THEN @ + 1 ELSE @,
                              !.wire = IF began THEN @ \cup {keyBytes} ELSE @,
                              !.txn = IF done THEN StoreDelete(@, keyBytes) ELSE @])
         ELSE batchDeleteLoop(keys, i + 1, mode, failAt, fail,
                  [acc EXCEPT !.errors = @ + 1])

\* main.go:695  handleBatchDeleteKVs
handleBatchDeleteKVs(keys, mode, failAt, fail) ==
    /\ router = "main"
    /\ Idle
    /\ \E r \in {batchDeleteLoop(keys, 1, mode, failAt, fail,
                     [raw |-> rawStore, txn |-> txnStore, deletedCount |-> 0,
                      errors |-> 0, begun |-> 0, committed |-> 0, wire |-> {}])} :
           /\ rawStore' = r.raw
           /\ txnStore' = r.txn
           /\ wireKeys' = r.wire
           /\ resp' = [NoResp EXCEPT !.op = "batchDelete", !.mode = mode,
                                     !.status = 200, !.success = (r.errors = 0),
                                     !.n = Len(keys), !.count = r.deletedCount,
                                     !.counted = TRUE,
                                     !.failureCount = r.errors,
                                     !.begun = r.begun, !.committed = r.committed]
    /\ UNCHANGED <<router, concurrentVars, handleVars, currentEndpoints, batch, sweep>>

-----------------------------------------------------------------------------
(* deleteAll.                                                              *)

kA == <<65>>                       \* "A"
kz == <<122>>                      \* "z"
key_0 == <<107, 101, 121, 95, 48>> \* "key_0"

\* the keys the model stores before a deleteAll, in each mode
SweepCreates ==
    ({k1, kA, kz} \X {"rawkv"}) \cup ({k1, kA, key_0} \X {"txn"})

\* where the backend may fail during one pass of a deleteAll loop; i is the
\* position in the pass of the delete that fails
SweepFailures ==
    [at : {"none", "begin", "scan", "next", "read", "commit"}, i : {1}]
        \cup [at : {"delete"},
              i : 1..(IF RawBatchSize > TxnBatchSize THEN RawBatchSize
                                                     ELSE TxnBatchSize)]

StoreDeleteAll(store, S) == [x \in DOMAIN store \ S |-> store[x]]

\* the elements of a sequence of keys
KeySet(keys) == {keys[j] : j \in 1..Len(keys)}

\* fmt.Sprintf("%d", i), i >= 0
RECURSIVE Itoa(_)
Itoa(i) == IF i < 10 THEN <<48 + i>> ELSE Itoa(i \div 10) \o <<48 + (i % 10)>>

\* handlers.go:1042-1048  the key names the transactional deleteAll tries
LetterKeys == {<<65 + i>> : i \in 0..25}

\* handlers.go:1076-1078  fmt.Sprintf("key_%d", i), i < 100
NumberKeys == {<<107, 101, 121, 95>> \o Itoa(i) : i \in 0..99}

\* main.go:1015 scanRawKVs / handlers.go:128 ScanKVs with an empty prefix:
\* the keys of the store that the router's scan range covers
scanAllKeys(store) ==
    IF router = "main"
    THEN RangeKeys(store, prefixedRange(<<>>)[1], prefixedRange(<<>>)[2])
    ELSE RangeKeys(store, makeKey(<<>>), makeKey(<<255, 255, 255, 255>>))

\* the response of a deleteAll and the end of its loop
SweepAnswer(status, deletedCount, failed) ==
    /\ sweep' = NoSweep
    /\ resp' = [NoResp EXCEPT !.op = "deleteAll", !.mode = sweep.mode,
                              !.success = (status = 200), !.status = status,
                              !.count = IF status = 200 THEN deletedCount ELSE 0,
                              !.counted = (status = 200),
                              !.staged = deletedCount,
                              !.n = sweep.m,
                              !.failed = failed]

\* main.go:767-786, 820-830  handleDeleteAllKVs up to its loop
handleDeleteAllKVs(mode) ==
    /\ router = "main"
    /\ Idle
    /\ wireKeys' = {}
    /\ IF \/ mode = "rawkv" /\ (rawKvClient = Nil \/ RawKVClient = Nil)
          \/ mode = "txn" /\ txnClient = Nil
       THEN /\ resp' = [NoResp EXCEPT !.op = "deleteAll", !.mode = mode,
                                      !.status = 503]
            /\ UNCHANGED sweep
       ELSE /\ sweep' = [NoSweep EXCEPT
                            !.active = TRUE, !.mode = mode,
                            !.scanStart = prefixedRange(<<>>)[1],
                            !.m = Cardinality(DOMAIN (IF mode = "rawkv"
                                                      THEN rawStore ELSE txnStore))]
            /\ resp' = NoResp
    /\ UNCHANGED <<router, concurrentVars, rawStore, txnStore, handleVars, currentEndpoints, batch>>

\* main.go:787-817  one pass of the direct-mode loop of handleDeleteAllKVs
handleDeleteAllKVsRaw(fail) ==
    /\ router = "main"
    /\ sweep.active
    /\ sweep.mode = "rawkv"
    /\ sweep.deletedCount <= MaxSweepCount
    /\ LET endKey == prefixedRange(<<>>)[2]
           keys == Scan(rawStore, sweep.scanStart, endKey, RawBatchSize)
           failed == sweep.failed \/ fail.at = "scan"
                        \/ (fail.at = "delete" /\ fail.i <= Len(keys))
       IN
       IF fail.at = "scan"
       THEN /\ SweepAnswer(500, sweep.deletedCount, failed)
            /\ wireKeys' = wireKeys \cup {sweep.scanStart, endKey}
            /\ UNCHANGED rawStore
       ELSE IF keys = <<>>
       THEN /\ SweepAnswer(200, sweep.deletedCount, failed)
            /\ wireKeys' = wireKeys \cup {sweep.scanStart, endKey}
            /\ UNCHANGED rawStore
       ELSE IF fail.at = "delete" /\ fail.i <= Len(keys)
       THEN /\ SweepAnswer(500, sweep.deletedCount + fail.i - 1, failed)
            /\ wireKeys' = wireKeys \cup {sweep.scanStart, endKey}
                                    \cup KeySet(SubSeq(keys, 1, fail.i))
            /\ rawStore' = StoreDeleteAll(rawStore, KeySet(SubSeq(keys, 1, fail.i - 1)))
       ELSE /\ rawStore' = StoreDeleteAll(rawStore, KeySet(keys))
            /\ wireKeys' = wireKeys \cup {sweep.scanStart, endKey} \cup KeySet(keys)
            /\ sweep' = [sweep EXCEPT
                            !.deletedCount = @ + Len(keys),
                            !.scanStart = keys[Len(keys)] \o <<0>>,
                            !.failed = failed]
            /\ UNCHANGED resp
    /\ UNCHANGED <<router, concurrentVars, txnStore, handleVars, currentEndpoints, batch>>

\* the transactional loop of handleDeleteAllKVs with every key of the range
\* staged in one transaction
handleDeleteAllKVsTxn_OneTransaction(fail) ==
    /\ router = "main"
    /\ sweep.active
    /\ sweep.mode = "txn"
    /\ sweep.deletedCount <= MaxSweepCount
    /\ LET range == prefixedRange(<<>>)
           keys == RangeKeys(txnStore, range[1], range[2])
           hit == \/ fail.at \in {"begin", "scan"}
                  \/ keys # <<>> /\ fail.at \in {"next", "commit"}
                  \/ fail.at = "delete" /\ fail.i <= Len(keys)
           failed == sweep.failed \/ hit
       IN
       IF fail.at = "begin"
       THEN /\ SweepAnswer(500, sweep.deletedCount, failed)
            /\ UNCHANGED <<txnStore, wireKeys>>
       ELSE IF hit
       THEN /\ SweepAnswer(500, sweep.deletedCount, failed)
            /\ wireKeys' = wireKeys \cup {range[1], range[2]}
                              \cup (IF fail.at = "delete"
                                    THEN KeySet(SubSeq(keys, 1, fail.i))
                                    ELSE IF fail.at = "commit" THEN KeySet(keys)
                                    ELSE {})
            /\ UNCHANGED txnStore
       ELSE IF keys = <<>>
       THEN /\ SweepAnswer(200, sweep.deletedCount, failed)
            /\ wireKeys' = wireKeys \cup {range[1], range[2]}
            /\ UNCHANGED txnStore
       ELSE /\ txnStore' = StoreDeleteAll(txnStore, KeySet(keys))
            /\ wireKeys' = wireKeys \cup {range[1], range[2]} \cup KeySet(keys)
            /\ IF TRUE
               THEN SweepAnswer(200, sweep.deletedCount + Len(keys), failed)
               ELSE /\ sweep' = [sweep EXCEPT !.deletedCount = @ + Len(keys),
                                              !.failed = failed]
                    /\ UNCHANGED resp
    /\ UNCHANGED <<router, concurrentVars, rawStore, handleVars, currentEndpoints, batch>>

\* main.go:832-905  one pass of the transactional loop of handleDeleteAllKVs
handleDeleteAllKVsTxn(fail) ==
    /\ router = "main"
    /\ sweep.active
    /\ sweep.mode = "txn"
    /\ sweep.deletedCount <= MaxSweepCount
    /\ LET range == prefixedRange(<<>>)
           keys == Scan(txnStore, range[1], range[2], TxnBatchSize)
           hit == \/ fail.at \in {"begin", "scan"}
                  \/ keys # <<>> /\ fail.at \in {"next", "commit"}
                  \/ fail.at = "delete" /\ fail.i <= Len(keys)
           failed == sweep.failed \/ hit
       IN
       IF fail.at = "begin"
       THEN /\ SweepAnswer(500, sweep.deletedCount, failed)
            /\ UNCHANGED <<txnStore, wireKeys>>
       ELSE IF hit
       THEN /\ SweepAnswer(500, sweep.deletedCount, failed)
            /\ wireKeys' = wireKeys \cup {range[1], range[2]}
                              \cup (IF fail.at = "delete"
                                    THEN KeySet(SubSeq(keys, 1, fail.i))
                                    ELSE IF fail.at = "commit" THEN KeySet(keys)
                                    ELSE {})
            /\ UNCHANGED txnStore
       ELSE IF keys = <<>>
       THEN /\ SweepAnswer(200, sweep.deletedCount, failed)
            /\ wireKeys' = wireKeys \cup {range[1], range[2]}
            /\ UNCHANGED txnStore
       ELSE /\ txnStore' = StoreDeleteAll(txnStore, KeySet(keys))
            /\ wireKeys' = wireKeys \cup {range[1], range[2]} \cup KeySet(keys)
            /\ IF Len(keys) < TxnBatchSize
               THEN SweepAnswer(200, sweep.deletedCount + Len(keys), failed)
               ELSE /\ sweep' = [sweep EXCEPT !.deletedCount = @ + Len(keys),
                                              !.failed = failed]
                    /\ UNCHANGED resp
    /\ UNCHANGED <<router, concurrentVars, rawStore, handleVars, currentEndpoints, batch>>

\* handlers.go:954-976, 1013-1027  DeleteAllKVs up to its loop
DeleteAllKVs(mode) ==
    /\ router = "api"
    /\ Idle
    /\ wireKeys' = {}
    /\ IF \/ mode = "rawkv" /\ tikv_rawKvClient = Nil
          \/ mode = "txn" /\ tikv_txnKvClient = Nil
       THEN /\ resp' = [NoResp EXCEPT !.op = "deleteAll", !.mode = mode,
                                      !.status = 503]
            /\ UNCHANGED sweep
       ELSE /\ sweep' = [NoSweep EXCEPT
                            !.active = TRUE, !.mode = mode,
                            !.scanStart = <<>>,
                            !.m = Cardinality(DOMAIN (IF mode = "rawkv"
                                                      THEN rawStore ELSE txnStore))]
            /\ resp' = NoResp
    /\ UNCHANGED <<router, concurrentVars, rawStore, txnStore, handleVars, currentEndpoints, batch>>

\* handlers.go:979-1010  one pass of the direct-mode loop of DeleteAllKVs:
\* RawKv.Scan and RawKv.Delete both put the prefix before what they are given
DeleteAllKVsRaw(fail) ==
    /\ router = "api"
    /\ sweep.active
    /\ sweep.mode = "rawkv"
    /\ sweep.deletedCount <= MaxSweepCount
    /\ LET startKey == makeKey(sweep.scanStart)
           endKey == makeKey(<<255, 255, 255, 255>>)
           keys == Scan(rawStore, startKey, endKey, RawBatchSize)
           sent == [j \in 1..Len(keys) |-> makeKey(keys[j])]
           failed == sweep.failed \/ fail.at = "scan"
                        \/ (fail.at = "delete" /\ fail.i <= Len(keys))
       IN
       IF fail.at = "scan"
       THEN /\ SweepAnswer(500, sweep.deletedCount, failed)
            /\ wireKeys' = wireKeys \cup {startKey, endKey}
            /\ UNCHANGED rawStore
       ELSE IF keys = <<>>
       THEN /\ SweepAnswer(200, sweep.deletedCount, failed)
            /\ wireKeys' = wireKeys \cup {startKey, endKey}
            /\ UNCHANGED rawStore
       ELSE IF fail.at = "delete" /\ fail.i <= Len(keys)
       THEN /\ SweepAnswer(500, sweep.deletedCount + fail.i - 1, failed)
            /\ wireKeys' = wireKeys \cup {startKey, endKey}
                                    \cup KeySet(SubSeq(sent, 1, fail.i))
            /\ rawStore' = StoreDeleteAll(rawStore, KeySet(SubSeq(sent, 1, fail.i - 1)))
       ELSE /\ rawStore' = StoreDeleteAll(rawStore, KeySet(sent))
            /\ wireKeys' = wireKeys \cup {startKey, endKey} \cup KeySet(sent)
            /\ sweep' = [sweep EXCEPT
                            !.deletedCount = @ + Len(keys),
                            !.scanStart = keys[Len(keys)] \o <<0>>,
                            !.failed = failed]
            /\ UNCHANGED resp
    /\ UNCHANGED <<router, concurrentVars, txnStore, handleVars, currentEndpoints, batch>>

\* handlers.go:1029-1128  one pass of the transactional loop of DeleteAllKVs:
\* the keys are looked for under the names "A".."Z", then "key_0".."key_99";
\* a read or a delete that fails is passed over
DeleteAllKVsTxn(fail) ==
    /\ router = "api"
    /\ sweep.active
    /\ sweep.mode = "txn"
    /\ sweep.deletedCount <= MaxSweepCount
    /\ LET held(names) == {k \in names : StoreGet(txnStore, makeKey(k)) # <<>>}
           existingKeys == IF fail.at = "read" THEN {} ELSE held(LetterKeys)
           numbered == IF fail.at = "read" THEN {} ELSE held(NumberKeys)
           deleted(found) == IF fail.at = "delete" THEN {} ELSE found
           hit == \/ fail.at \in {"begin", "commit"}
                  \/ fail.at = "read" /\ held(LetterKeys) # {}
                  \/ fail.at = "delete" /\ existingKeys # {}
           failed == sweep.failed \/ hit
       IN
       IF fail.at = "begin"
       THEN /\ SweepAnswer(500, sweep.deletedCount, failed)
            /\ UNCHANGED <<txnStore, wireKeys>>
       ELSE IF fail.at = "commit"
       THEN /\ SweepAnswer(500, sweep.deletedCount, failed)
            /\ wireKeys' = wireKeys \cup {makeKey(k) : k \in LetterKeys}
            /\ UNCHANGED txnStore
       ELSE IF existingKeys = {}
       THEN /\ IF sweep.totalDeleted = 0
               THEN /\ txnStore' = StoreDeleteAll(txnStore,
                                       {makeKey(k) : k \in deleted(numbered)})
                    /\ wireKeys' = wireKeys
                                      \cup {makeKey(k) : k \in LetterKeys \cup NumberKeys}
               ELSE /\ wireKeys' = wireKeys \cup {makeKey(k) : k \in LetterKeys}
                    /\ UNCHANGED txnStore
            /\ SweepAnswer(200, sweep.deletedCount,
                           failed \/ (fail.at \in {"read", "delete"}
                                         /\ sweep.totalDeleted = 0
                                         /\ held(NumberKeys) # {}))
       ELSE /\ txnStore' = StoreDeleteAll(txnStore,
                               {makeKey(k) : k \in deleted(existingKeys)})
            /\ wireKeys' = wireKeys \cup {makeKey(k) : k \in LetterKeys}
            /\ IF sweep.totalDeleted + Cardinality(deleted(existingKeys)) = 0
               THEN SweepAnswer(200, sweep.deletedCount, failed)
               ELSE /\ sweep' = [sweep EXCEPT
                                    !.deletedCount = @ + Cardinality(deleted(existingKeys)),
                                    !.totalDeleted = @ + Cardinality(deleted(existingKeys)),
                                    !.failed = failed]
                    /\ UNCHANGED resp
    /\ UNCHANGED <<router, concurrentVars, rawStore, handleVars, currentEndpoints, batch>>

-----------------------------------------------------------------------------
(* Scanning a prefix, page by page.                                        *)

\* Width in bits of the int of the build (64 on the platforms of the
\* Dockerfile), scaled to the numbers of the model.
IntBits == 16

\* math.MaxInt
MaxInt == 2^(IntBits - 1) - 1

\* the int that int arithmetic gives for the number n: n modulo 2^IntBits,
\* in two's complement
WrapInt(n) == ((n + 2^(IntBits - 1)) % 2^IntBits) - 2^(IntBits - 1)

\* Highest page number a scan request asks for.
MaxPage == 3
\* Largest page size a scan request asks for (100 at most in QueryOptions,
\* main.go:1245), scaled to the stores of the model.
MaxLimit == 4

\* handlers.go:193  the limit of the scan that counts the keys of a prefix
ScanCap == 10000

\* logical keys of the scanned stores: "k", "k\x00", "k\xFF" and "l"
ScanKeys == {<<107>>, <<107, 0>>, <<107, 255>>, <<108>>}

TxnScanKeys == {<<107>>}

\* the prefix parameter of a scan request
ScanPrefixes == {<<>>, <<107>>, <<107, 255>>, makeKey(<<107>>)}

\* a query parameter of a request: absent, not a number, or the number n
NoQuery == [given |-> FALSE, numeric |-> FALSE, n |-> 0]

BadQuery == [given |-> TRUE, numeric |-> FALSE, n |-> 0]

Query(n) == [given |-> TRUE, numeric |-> TRUE, n |-> n]

\* main.go:223  page := 1
DefaultPage == 1
\* main.go:224  limit := 100
DefaultLimitMain == 100
\* main.go:1245  form:"limit,default=20" binding:"min=1,max=100"
DefaultLimit == 20
LimitCap == 100

\* the page parameter of a scan request
ScanPages == {NoQuery} \cup {Query(n) : n \in 2..MaxPage}

\* the limit parameter of a scan request
ScanLimits == {Query(1), Query(2), Query(MaxLimit)}

\* page and limit parameters of every kind
PageQueries == {NoQuery, BadQuery, Query(0), Query(1), Query(2)}

LimitQueries == {NoQuery, BadQuery, Query(0), Query(1), Query(LimitCap),
                 Query(LimitCap + 1)}

\* the backend calls of a scan that may fail, per router and mode
ScanFailuresOf(mode) ==
    IF router = "main"
    THEN IF mode = "rawkv" THEN {"none", "scan"}
                           ELSE {"none", "begin", "scan", "next"}
    ELSE IF mode = "rawkv" THEN {"none", "scan", "count"}
                           ELSE {"none", "begin", "commit"}

\* dao.go:41  RawKv.Put, called with a []byte key by a client of the DAO
RawKvPut(key, val) ==
    /\ Idle
    /\ rawStore' = StorePut(rawStore, makeKey(key), val)
    /\ wireKeys' = {makeKey(key)}
    /\ resp' = [NoResp EXCEPT !.op = "put", !.mode = "rawkv", !.success = TRUE,
                              !.key = key, !.written = val]
    /\ UNCHANGED <<router, concurrentVars, txnStore, handleVars, currentEndpoints, batch, sweep>>

\* dao.go:135  TxnKv.Set between Begin and Commit, as the DAO's test does
\* for each of its keys (TestTxnClientPutAndScan)
TxnKvSet(key, val, ok) ==
    /\ Idle
    /\ txnStore' = IF ok THEN StorePut(txnStore, makeKey(key), val) ELSE txnStore
    /\ wireKeys' = {makeKey(key)}
    /\ resp' = [NoResp EXCEPT !.op = "put", !.mode = "txn", !.success = ok,
                              !.key = key, !.written = val]
    /\ UNCHANGED <<router, concurrentVars, rawStore, handleVars, currentEndpoints, batch, sweep>>

\* KeyValuePair{Key: string(key), Value: string(value)} for a list of wire keys
Pairs(store, keys) ==
    [i \in 1..Len(keys) |-> [Key |-> keys[i], Value |-> store[keys[i]]]]

\* the keys a caller of this router has under a prefix, in ascending order
\* with their values: main.go names a key by its wire key (prefixedKey),
\* pkg/api by the wire key without TiKVWebKeyPrefix (makeKey)
Listing(store, prefix) ==
    LET logical == IF router = "main" THEN DOMAIN store
                   ELSE {SubSeq(k, Len(TiKVWebKeyPrefix) + 1, Len(k)) :
                            k \in {x \in DOMAIN store : HasPrefix(x, TiKVWebKeyPrefix)}}
        keys == SortKeys({k \in logical : HasPrefix(k, prefix)})
    IN [i \in 1..Len(keys) |-> [Key |-> keys[i], Value |-> store[wireKey(keys[i])]]]

\* the numbers of a scan: offset = (page-1)*limit and bound = offset+limit as
\* the int arithmetic gives them, and, when the scanned keys are indexed
\* (taken), the first index, the index after the last and the number of keys
NoSlice == [offset |-> 0, bound |-> 0, taken |-> FALSE,
            start |-> 0, end |-> 0, scanned |-> 0]

\* what a scan did: the error it returns, its pairs and total, the range
\* bounds it sent, whether a backend call failed, and the transactions it
\* began, committed and rolled back
ScanResult(err, kvPairs, total, wire, hit, begun, committed, rolledBack) ==
    [err |-> err, kvPairs |-> kvPairs, total |-> total, wire |-> wire,
     hit |-> hit, begun |-> begun, committed |-> committed,
     rolledBack |-> rolledBack, slice |-> NoSlice]

\* main.go:1015  scanRawKVs
scanRawKVs(prefix, page, limit, fail) ==
    LET client == IF rawKvClient = Nil THEN Nil ELSE RawKVClient
        offset == WrapInt((page - 1) * limit)
        bound == WrapInt(offset + limit)
        range == prefixedRange(prefix)
        keys == Scan(rawStore, range[1], range[2], bound)
        end == IF bound > Len(keys) THEN Len(keys) ELSE bound
        wire == {range[1], range[2]}
        slice(taken) == [offset |-> offset, bound |-> bound, taken |-> taken,
                         start |-> offset, end |-> end, scanned |-> Len(keys)]
    IN
    IF client = Nil
    THEN ScanResult(FALSE, <<>>, 0, {}, FALSE, 0, 0, 0)
    ELSE IF fail = "scan"
    THEN ScanResult(TRUE, <<>>, 0, wire, TRUE, 0, 0, 0)
    ELSE IF offset > Len(keys)
    THEN [ScanResult(FALSE, <<>>, Len(keys), wire, FALSE, 0, 0, 0)
             EXCEPT !.slice = slice(FALSE)]
    ELSE IF offset < 0
    THEN \* keys[i] with i = start < 0: the handler panics (gin.Recovery, 500)
         [ScanResult(TRUE, <<>>, 0, wire, FALSE, 0, 0, 0)
             EXCEPT !.slice = slice(TRUE)]
    ELSE [ScanResult(FALSE, Pairs(rawStore, SubSeq(keys, offset + 1, end)),
                     Len(keys), wire, FALSE, 0, 0, 0)
             EXCEPT !.slice = slice(TRUE)]

\* the walk of the iterator in scanTxnKVs going through the whole range
\* whatever the page holds
scanTxnWalk_WholeRange(keys, i, skipCount, limit, kvPairs, totalCount, currentCount, nextFails) ==
    [kvPairs |-> SubSeq(keys, skipCount + 1,
                        IF skipCount + limit < Len(keys) THEN skipCount + limit
                                                         ELSE Len(keys)),
     totalCount |-> Len(keys), failed |-> FALSE]

\* main.go:1104  the walk of the iterator in scanTxnKVs: keys[i..] is what
\* the iterator still holds; nextFails says that iter.Next() returns an
\* error, failed that the walk met it
RECURSIVE scanTxnWalk(_, _, _, _, _, _, _, _)
scanTxnWalk(keys, i, skipCount, limit, kvPairs, totalCount, currentCount, nextFails) ==
    IF i > Len(keys)
    THEN [kvPairs |-> kvPairs, totalCount |-> totalCount, failed |-> FALSE]
    ELSE LET take == currentCount >= skipCount /\ Len(kvPairs) < limit
             kv == IF take THEN Append(kvPairs, keys[i]) ELSE kvPairs
             cc == IF take \/ currentCount < skipCount
                   THEN currentCount + 1 ELSE currentCount
         IN IF Len(kv) >= limit
            THEN [kvPairs |-> kv, totalCount |-> totalCount + 1, failed |-> FALSE]
            ELSE IF nextFails
            THEN [kvPairs |-> kv, totalCount |-> totalCount + 1, failed |-> TRUE]
            ELSE scanTxnWalk(keys, i + 1, skipCount, limit, kv, totalCount + 1,
                             cc, nextFails)

\* main.go:1072  scanTxnKVs: the transaction is rolled back when the
\* function returns (defer txn.Rollback())
scanTxnKVs(prefix, page, limit, fail) ==
    LET range == prefixedRange(prefix)
        keys == RangeKeys(txnStore, range[1], range[2])
        skipCount == WrapInt((page - 1) * limit)
        walk == scanTxnWalk(keys, 1, skipCount, limit, <<>>, 0, 0,
                            fail = "next")
        wire == {range[1], range[2]}
    IN
    IF txnClient = Nil
    THEN ScanResult(TRUE, <<>>, 0, {}, FALSE, 0, 0, 0)
    ELSE IF fail = "begin"
    THEN ScanResult(TRUE, <<>>, 0, {}, TRUE, 0, 0, 0)
    ELSE IF fail = "scan"
    THEN ScanResult(TRUE, <<>>, 0, wire, TRUE, 1, 0, 1)
    ELSE [ScanResult(FALSE, Pairs(txnStore, walk.kvPairs), walk.totalCount, wire,
                     walk.failed, 1, 0, 1)
             EXCEPT !.slice = [NoSlice EXCEPT !.offset = skipCount]]

\* main.go:228-237  strconv.Atoi of a parameter that is given; the parsed
\* number is taken when it is above 0, the default otherwise
mainScanParam(q, default) ==
    IF q.given /\ q.numeric /\ q.n > 0 THEN q.n ELSE default

\* main.go:1243  QueryOptions as ShouldBindQuery fills and validates it:
\* the default for an absent parameter, an error for a parameter that is
\* not a number or out of its bounds
bindQuery(pageQ, limitQ) ==
    LET page == IF pageQ.given THEN pageQ.n ELSE DefaultPage
        limit == IF limitQ.given THEN limitQ.n ELSE DefaultLimit
    IN [err |-> \/ (pageQ.given /\ ~pageQ.numeric)
                \/ (limitQ.given /\ ~limitQ.numeric)
                \/ page < 1
                \/ limit < 1
                \/ limit > LimitCap,
        Page |-> page, Limit |-> limit]

\* the response of a scan request: PaginatedResult in an ApiResponse
ScanAnswer(prefix, page, limit, mode, there, status, r) ==
    [NoResp EXCEPT !.op = "scan", !.mode = mode, !.status = status,
                   !.success = (status = 200), !.key = prefix,
                   !.page = page, !.limit = limit,
                   !.items = IF status = 200 THEN r.kvPairs ELSE <<>>,
                   !.total = IF status = 200 THEN r.total ELSE 0,
                   !.totalPages = IF status = 200
                                  THEN (r.total + limit - 1) \div limit ELSE 0,
                   !.there = there, !.failed = r.hit,
                   !.begun = r.begun, !.committed = r.committed,
                   !.rolledBack = r.rolledBack,
                   !.expected = Listing(StoreOf(mode), prefix),
                   !.slice = r.slice]

\* main.go:221  handleScanKVs
handleScanKVs(prefix, pageQ, limitQ, mode, fail) ==
    /\ router = "main"
    /\ Idle
    /\ LET there == IF mode = "rawkv" THEN rawKvClient # Nil ELSE txnClient # Nil
           page == mainScanParam(pageQ, DefaultPage)
           limit == mainScanParam(limitQ, DefaultLimitMain)
       IN \E r \in {IF ~there
                    THEN ScanResult(FALSE, <<>>, 0, {}, FALSE, 0, 0, 0)
                    ELSE IF mode = "rawkv"
                    THEN scanRawKVs(prefix, page, limit, fail)
                    ELSE scanTxnKVs(prefix, page, limit, fail)} :
              /\ resp' = [ScanAnswer(prefix, page, limit, mode, there,
                                     IF r.err THEN 500 ELSE 200, r)
                             EXCEPT !.query = <<pageQ, limitQ>>]
              /\ wireKeys' = r.wire
    /\ UNCHANGED <<router, concurrentVars, rawStore, txnStore, handleVars, currentEndpoints, batch, sweep>>

\* handlers.go:183  the pairs of a page: every scanned key longer than the
\* prefix, without its first len(TiKVWebKeyPrefix) bytes
StripPairs(store, keys) ==
    LET kept == SelectSeq(keys, LAMBDA k : Len(k) > Len(TiKVWebKeyPrefix))
    IN [i \in 1..Len(kept) |->
           [Key |-> SubSeq(kept[i], Len(TiKVWebKeyPrefix) + 1, Len(kept[i])),
            Value |-> store[kept[i]]]]

\* handlers.go:128  ScanKVs
ScanKVs(prefix, pageQ, limitQ, mode, fail) ==
    /\ router = "api"
    /\ Idle
    /\ LET query == bindQuery(pageQ, limitQ)
           page == query.Page
           limit == query.Limit
           there == IF mode = "rawkv" THEN tikv_rawKvClient # Nil
                                      ELSE tikv_txnKvClient # Nil
           startKey == makeKey(prefix)
           endKey == makeKey(IF prefix = <<>> THEN <<255, 255, 255, 255>>
                                              ELSE prefix \o <<255>>)
           offset == WrapInt((page - 1) * limit)
           keys == Scan(rawStore, startKey, endKey, WrapInt(offset + limit))
           allKeys == Scan(rawStore, startKey, endKey, ScanCap)
           wire == {startKey, endKey}
           answer(status, r) ==
               [ScanAnswer(prefix, page, limit, mode, there, status, r)
                    EXCEPT !.query = <<pageQ, limitQ>>]
       IN
       IF query.err
       THEN /\ resp' = [NoResp EXCEPT !.op = "scan", !.mode = mode, !.status = 400,
                                      !.key = prefix, !.there = there,
                                      !.query = <<pageQ, limitQ>>]
            /\ wireKeys' = {}
       ELSE IF ~there
       THEN /\ resp' = answer(503, ScanResult(TRUE, <<>>, 0, {}, FALSE, 0, 0, 0))
            /\ wireKeys' = {}
       ELSE IF mode = "rawkv"
       THEN /\ wireKeys' = wire
            /\ IF fail = "scan"
               THEN resp' = answer(500, ScanResult(TRUE, <<>>, 0, wire, TRUE, 0, 0, 0))
               ELSE resp' = answer(200,
                       ScanResult(FALSE, StripPairs(rawStore, keys),
                                  IF fail = "count" THEN Len(keys) ELSE Len(allKeys),
                                  wire, fail = "count", 0, 0, 0))
       ELSE \* the transaction is begun and committed, nothing is read in it
            /\ wireKeys' = {}
            /\ IF fail = "begin"
               THEN resp' = answer(500, ScanResult(TRUE, <<>>, 0, {}, TRUE, 0, 0, 0))
               ELSE IF fail = "commit"
               THEN resp' = answer(500, ScanResult(TRUE, <<>>, 0, {}, TRUE, 1, 0, 0))
               ELSE resp' = answer(200, ScanResult(FALSE, <<>>, 0, {}, FALSE, 1, 1, 0))
    /\ UNCHANGED <<router, concurrentVars, rawStore, txnStore, handleVars, currentEndpoints, batch, sweep>>


-----------------------------------------------------------------------------
(* Requests served at the same time: reconfiguration step by step, and     *)
(* the handlers that read the handle variables while it goes on.           *)

\* the request p moves on with the locals r
Serve(p, r) == inflight' = [inflight EXCEPT ![p] = r]

\* the requests are given their numbers in the order in which they arrive
Arrives(p) ==
    /\ inflight[p].kind = "none"
    /\ \A q \in Requests : q < p => inflight[q].kind # "none"

At(p, kind, pc) == inflight[p].kind = kind /\ inflight[p].pc = pc

\* the endpoint list that the reconfiguration request p asks for: "h:p"
RequestEndpoints(p) == << <<"h", ":", ToString(p)>> >>

\* main.go:970 handleUpdateClusterEndpoints with a list that parses, up to
\* its call of InitializeTiKVClient; init.go:15 on the api router
ReconfigureBegin(p) ==
    /\ Arrives(p)
    /\ Serve(p, [NoRequest EXCEPT !.kind = "reconfigure", !.pc = "openRaw",
                                  !.endpoints = RequestEndpoints(p)])
    /\ UNCHANGED <<router, rawStore, txnStore, handleVars, currentEndpoints,
                   batch, sweep, wireKeys, resp, clientMu, openedBy, table>>

\* client.go:27-31  newRawKVWithAPIVersion: the error return (503), or a
\* new handle
ReconfigureOpenRaw(p, ok) ==
    /\ At(p, "reconfigure", "openRaw")
    /\ IF ok
       THEN /\ Serve(p, [inflight[p] EXCEPT !.pc = "lockRaw", !.new = nextHandle])
            /\ nextHandle' = nextHandle + 1
            /\ openedBy' = [h \in DOMAIN openedBy \cup {nextHandle} |->
                               IF h = nextHandle THEN p ELSE openedBy[h]]
       ELSE /\ Serve(p, [inflight[p] EXCEPT !.pc = "done", !.status = 503])
            /\ UNCHANGED <<nextHandle, openedBy>>
    /\ UNCHANGED <<router, rawStore, txnStore, RawKVClient, TxnKVClient, rawKvClient,
                   txnClient, tikv_rawKvClient, tikv_txnKvClient, closed,
                   currentEndpoints, batch, sweep, wireKeys, resp, clientMu, table>>

\* client.go:33-35  clientMu.Lock(); oldClient := RawKVClient;
\* RawKVClient = rawClient
ReconfigureSwapRaw(p) ==
    /\ At(p, "reconfigure", "lockRaw")
    /\ clientMu = 0
    /\ clientMu' = p
    /\ RawKVClient' = inflight[p].new
    /\ Serve(p, [inflight[p] EXCEPT !.pc = "unlockRaw", !.old = RawKVClient])
    /\ UNCHANGED <<router, rawStore, txnStore, TxnKVClient, rawKvClient, txnClient,
                   tikv_rawKvClient, tikv_txnKvClient, closed, nextHandle,
                   currentEndpoints, batch, sweep, wireKeys, resp, openedBy, table>>

\* client.go:36 / client.go:71  clientMu.Unlock()
ReconfigureUnlock(p) ==
    /\ inflight[p].kind = "reconfigure"
    /\ inflight[p].pc \in {"unlockRaw", "unlockTxn"}
    /\ clientMu' = 0
    /\ Serve(p, [inflight[p] EXCEPT
                    !.pc = IF @ = "unlockRaw" THEN "closeRaw" ELSE "closeTxn"])
    /\ UNCHANGED <<router, rawStore, txnStore, handleVars, currentEndpoints,
                   batch, sweep, wireKeys, resp, openedBy, table>>

\* client.go:38-40 / client.go:73-75  if oldClient != nil { oldClient.Close() }
ReconfigureClose(p) ==
    /\ inflight[p].kind = "reconfigure"
    /\ inflight[p].pc \in {"closeRaw", "closeTxn"}
    /\ closed' = closed \cup ({inflight[p].old} \ {Nil})
    /\ Serve(p, [inflight[p] EXCEPT
                    !.pc = IF @ = "closeRaw" THEN "setRaw" ELSE "setTxn"])
    /\ UNCHANGED <<router, rawStore, txnStore, RawKVClient, TxnKVClient, rawKvClient,
                   txnClient, tikv_rawKvClient, tikv_txnKvClient, nextHandle,
                   currentEndpoints, batch, sweep, wireKeys, resp, clientMu,
                   openedBy, table>>

\* main.go:83  rawKvClient = rawClient;  init.go:24  rawKvClient = NewRawKv(),
\* which stores the RawKVClient of the moment (dao.go:22)
ReconfigureSetRaw(p) ==
    /\ At(p, "reconfigure", "setRaw")
    /\ IF router = "main"
       THEN rawKvClient' = inflight[p].new /\ UNCHANGED tikv_rawKvClient
       ELSE tikv_rawKvClient' = RawKVClient /\ UNCHANGED rawKvClient
    /\ Serve(p, [inflight[p] EXCEPT !.pc = "openTxn", !.new = Nil, !.old = Nil])
    /\ UNCHANGED <<router, rawStore, txnStore, RawKVClient, TxnKVClient, txnClient,
                   tikv_txnKvClient, closed, nextHandle, currentEndpoints, batch,
                   sweep, wireKeys, resp, clientMu, openedBy, table>>

\* client.go:62-66  newTxnKVWithAPIVersion: the error return (503), or a
\* new handle
ReconfigureOpenTxn(p, ok) ==
    /\ At(p, "reconfigure", "openTxn")
    /\ IF ok
       THEN /\ Serve(p, [inflight[p] EXCEPT !.pc = "lockTxn", !.new = nextHandle])
            /\ nextHandle' = nextHandle + 1
            /\ openedBy' = [h \in DOMAIN openedBy \cup {nextHandle} |->
                               IF h = nextHandle THEN p ELSE openedBy[h]]
       ELSE /\ Serve(p, [inflight[p] EXCEPT !.pc = "done", !.status = 503])
            /\ UNCHANGED <<nextHandle, openedBy>>
    /\ UNCHANGED <<router, rawStore, txnStore, RawKVClient, TxnKVClient, rawKvClient,
                   txnClient, tikv_rawKvClient, tikv_txnKvClient, closed,
                   currentEndpoints, batch, sweep, wireKeys, resp, clientMu, table>>

\* client.go:68-70  clientMu.Lock(); oldClient := TxnKVClient;
\* TxnKVClient = txnClient
ReconfigureSwapTxn(p) ==
    /\ At(p, "reconfigure", "lockTxn")
    /\ clientMu = 0
    /\ clientMu' = p
    /\ TxnKVClient' = inflight[p].new
    /\ Serve(p, [inflight[p] EXCEPT !.pc = "unlockTxn", !.old = TxnKVClient])
    /\ UNCHANGED <<router, rawStore, txnStore, RawKVClient, rawKvClient, txnClient,
                   tikv_rawKvClient, tikv_txnKvClient, closed, nextHandle,
                   currentEndpoints, batch, sweep, wireKeys, resp, openedBy, table>>

\* client.go:77 client.cli = TxnKVClient and main.go:91 txnClient = txn;
\* init.go:33 txnKvClient = NewTxnKv(), which stores the TxnKVClient of the
\* moment (dao.go:105)
ReconfigureSetTxn(p) ==
    /\ At(p, "reconfigure", "setTxn")
    /\ IF router = "main"
       THEN txnClient' = TxnKVClient /\ UNCHANGED tikv_txnKvClient
       ELSE tikv_txnKvClient' = TxnKVClient /\ UNCHANGED txnClient
    /\ Serve(p, [inflight[p] EXCEPT !.pc = "finish", !.new = Nil, !.old = Nil])
    /\ UNCHANGED <<router, rawStore, txnStore, RawKVClient, TxnKVClient, rawKvClient,
                   tikv_rawKvClient, closed, nextHandle, currentEndpoints, batch,
                   sweep, wireKeys, resp, clientMu, openedBy, table>>

\* main.go:1000-1011  setCurrentEndpoints(endpoints) and the response;
\* init.go:36  return nil
ReconfigureFinish(p) ==
    /\ At(p, "reconfigure", "finish")
    /\ currentEndpoints' = IF router = "main" THEN inflight[p].endpoints
                                              ELSE currentEndpoints
    /\ Serve(p, [inflight[p] EXCEPT !.pc = "done", !.status = 200])
    /\ UNCHANGED <<router, rawStore, txnStore, handleVars, batch, sweep, wireKeys,
                   resp, clientMu, openedBy, table>>

\* a batch request of a direct-mode put and a transactional put of k1:
\* main.go:519 handleBatchOperations, handlers.go:640 BatchOperations
BatchRequestBegin(p) ==
    /\ Arrives(p)
    /\ Serve(p, [NoRequest EXCEPT !.kind = "batch", !.pc = "readRaw",
                                  !.key = k1, !.value = v1])
    /\ UNCHANGED <<router, rawStore, txnStore, handleVars, currentEndpoints,
                   batch, sweep, wireKeys, resp, clientMu, openedBy, table>>

\* main.go:547-562  rawKvClient == nil, tikv.RawKVClient == nil,
\* client := tikv.RawKVClient;  handlers.go:675-684  GetRawKvClient() == nil,
\* rawKvDAO := tikv.NewRawKv() (dao.go:22 cli: RawKVClient)
BatchRequestReadRaw(p) ==
    /\ At(p, "batch", "readRaw")
    /\ LET there == IF router = "main" THEN rawKvClient # Nil /\ RawKVClient # Nil
                                       ELSE tikv_rawKvClient # Nil
       IN Serve(p, [inflight[p] EXCEPT
                       !.pc = IF there THEN "callRaw" ELSE "readTxn",
                       !.raw = IF there THEN RawKVClient ELSE Nil,
                       !.unlockedRead = @ \/ clientMu # p])
    /\ UNCHANGED <<router, rawStore, txnStore, handleVars, currentEndpoints,
                   batch, sweep, wireKeys, resp, clientMu, openedBy, table>>

\* main.go:566 client.Put / handlers.go:687 rawKvDAO.Put on the handle read;
\* a closed handle returns an error
BatchRequestCallRaw(p) ==
    /\ At(p, "batch", "callRaw")
    /\ LET h == inflight[p].raw IN
       /\ rawStore' = IF h \in closed \cup {Nil} THEN rawStore
                      ELSE StorePut(rawStore, wireKey(inflight[p].key),
                                    inflight[p].value)
       /\ Serve(p, [inflight[p] EXCEPT !.pc = "readTxn",
                                       !.onClosed = @ \/ h \in closed])
    /\ UNCHANGED <<router, txnStore, handleVars, currentEndpoints, batch, sweep,
                   wireKeys, resp, clientMu, openedBy, table>>

\* main.go:592-606  txnClient == nil, tikv.TxnKVClient == nil,
\* client := tikv.TxnKVClient;  handlers.go:712-721  GetTxnKvClient() == nil,
\* txnKvDAO := tikv.NewTxnKv() (dao.go:105 cli: TxnKVClient)
BatchRequestReadTxn(p) ==
    /\ At(p, "batch", "readTxn")
    /\ LET there == IF router = "main" THEN txnClient # Nil /\ TxnKVClient # Nil
                                       ELSE tikv_txnKvClient # Nil
       IN Serve(p, [inflight[p] EXCEPT
                       !.pc = IF there THEN "callTxn" ELSE "done",
                       !.status = IF there THEN @ ELSE 200,
                       !.txn = IF there THEN TxnKVClient ELSE Nil,
                       !.unlockedRead = @ \/ clientMu # p])
    /\ UNCHANGED <<router, rawStore, txnStore, handleVars, currentEndpoints,
                   batch, sweep, wireKeys, resp, clientMu, openedBy, table>>

\* main.go:608-630 / handlers.go:722-745  Begin, Set and Commit on the handle
\* read; a closed handle returns an error.  The batch is answered 200.
BatchRequestCallTxn(p) ==
    /\ At(p, "batch", "callTxn")
    /\ LET h == inflight[p].txn IN
       /\ txnStore' = IF h \in closed \cup {Nil} THEN txnStore
                      ELSE StorePut(txnStore, wireKey(inflight[p].key),
                                    inflight[p].value)
       /\ Serve(p, [inflight[p] EXCEPT !.pc = "done", !.status = 200,
                                       !.onClosed = @ \/ h \in closed])
    /\ UNCHANGED <<router, rawStore, handleVars, currentEndpoints, batch, sweep,
                   wireKeys, resp, clientMu, openedBy, table>>

\* a create of k1 in one mode: main.go:303 handleCreateKV, handlers.go:253
\* CreateKV up to the test of the mode's client
SingleRequestBegin(p, mode) ==
    /\ Arrives(p)
    /\ Serve(p, [NoRequest EXCEPT !.kind = "single", !.pc = "read", !.mode = mode,
                                  !.key = k1, !.value = v1])
    /\ UNCHANGED <<router, rawStore, txnStore, handleVars, currentEndpoints,
                   batch, sweep, wireKeys, resp, clientMu, openedBy, table>>

\* the handle a single-key handler works with: main.go:324 tikv.RawKVClient
\* when rawKvClient != nil, main.go:327 txnClient.Begin() on the cli of the
\* wrapper (client.go:55); handlers.go:267, 297 the cli that the DAO of
\* GetRawKvClient() / GetTxnKvClient() has stored (dao.go:22, 105)
SingleRequestRead(p) ==
    /\ At(p, "single", "read")
    /\ LET mode == inflight[p].mode
           h == IF router = "main"
                THEN IF mode = "rawkv"
                     THEN IF rawKvClient = Nil THEN Nil ELSE RawKVClient
                     ELSE txnClient
                ELSE IF mode = "rawkv" THEN tikv_rawKvClient ELSE tikv_txnKvClient
       IN Serve(p, [inflight[p] EXCEPT
                       !.pc = IF h = Nil THEN "done" ELSE "call",
                       !.status = IF h # Nil THEN @
                                  ELSE IF router = "main" THEN 400 ELSE 503,
                       !.raw = IF mode = "rawkv" THEN h ELSE Nil,
                       !.txn = IF mode = "txn" THEN h ELSE Nil,
                       !.unlockedRead = @ \/ (h # Nil /\ clientMu # p)])
    /\ UNCHANGED <<router, rawStore, txnStore, handleVars, currentEndpoints,
                   batch, sweep, wireKeys, resp, clientMu, openedBy, table>>

\* the write of the key on the handle read: Put, or Begin, Set and Commit; a
\* closed handle returns an error (500)
SingleRequestCall(p) ==
    /\ At(p, "single", "call")
    /\ LET mode == inflight[p].mode
           h == IF mode = "rawkv" THEN inflight[p].raw ELSE inflight[p].txn
           after(store) == IF h \in closed THEN store
                           ELSE StorePut(store, wireKey(inflight[p].key),
                                         inflight[p].value)
       IN /\ rawStore' = IF mode = "rawkv" THEN after(rawStore) ELSE rawStore
          /\ txnStore' = IF mode = "txn" THEN after(txnStore) ELSE txnStore
          /\ Serve(p, [inflight[p] EXCEPT
                          !.pc = "done",
                          !.status = IF h \in closed THEN 500
                                     ELSE IF router = "main" THEN 200 ELSE 201,
                          !.onClosed = @ \/ h \in closed])
    /\ UNCHANGED <<router, handleVars, currentEndpoints, batch, sweep, wireKeys,
                   resp, clientMu, openedBy, table>>

\* reconfiguration requests and handlers served at the same time
NextSwap ==
    \/ \E p \in Requests : ReconfigureBegin(p)
    \/ \E p \in Requests, ok \in BOOLEAN : ReconfigureOpenRaw(p, ok)
    \/ \E p \in Requests : ReconfigureSwapRaw(p)
    \/ \E p \in Requests : ReconfigureUnlock(p)
    \/ \E p \in Requests : ReconfigureClose(p)
    \/ \E p \in Requests : ReconfigureSetRaw(p)
    \/ \E p \in Requests, ok \in BOOLEAN : ReconfigureOpenTxn(p, ok)
    \/ \E p \in Requests : ReconfigureSwapTxn(p)
    \/ \E p \in Requests : ReconfigureSetTxn(p)
    \/ \E p \in Requests : ReconfigureFinish(p)
    \/ \E p \in Requests : BatchRequestBegin(p)
    \/ \E p \in Requests : BatchRequestReadRaw(p)
    \/ \E p \in Requests : BatchRequestCallRaw(p)
    \/ \E p \in Requests : BatchRequestReadTxn(p)
    \/ \E p \in Requests : BatchRequestCallTxn(p)
    \/ \E p \in Requests, mode \in GetModes : SingleRequestBegin(p, mode)
    \/ \E p \in Requests : SingleRequestRead(p)
    \/ \E p \in Requests : SingleRequestCall(p)

\* handlers.go:253-274, 296-314  CreateKV of k1 up to its first call of the
\* backend: 503 without the DAO of the mode; in transactional mode Begin,
\* which fixes the snapshot that the transaction reads
CreateRequestBegin(p, mode, value) ==
    /\ router = "api"
    /\ Arrives(p)
    /\ LET dao == IF mode = "rawkv" THEN tikv_rawKvClient ELSE tikv_txnKvClient IN
       Serve(p, [NoRequest EXCEPT
                    !.kind = "create", !.mode = mode, !.key = k1, !.value = value,
                    !.pc = IF dao = Nil THEN "done" ELSE "get",
                    !.status = IF dao = Nil THEN 503 ELSE 0,
                    !.seen = IF mode = "txn" THEN StoreGet(txnStore, makeKey(k1))
                                             ELSE <<>>])
    /\ UNCHANGED <<router, rawStore, txnStore, handleVars, currentEndpoints,
                   batch, sweep, wireKeys, resp, clientMu, openedBy, table>>

\* handlers.go:277-284  rawKvClient.Get and the 409 for a key that is there;
\* handlers.go:317-336  txnKvClient.Get on the snapshot, the 409 with its
\* Rollback, and Set
CreateRequestGet(p) ==
    /\ At(p, "create", "get")
    /\ LET existingValue == IF inflight[p].mode = "rawkv"
                            THEN StoreGet(rawStore, makeKey(inflight[p].key))
                            ELSE inflight[p].seen
       IN Serve(p, [inflight[p] EXCEPT
                       !.seen = existingValue,
                       !.pc = IF Len(existingValue) > 0 THEN "done" ELSE "write",
                       !.status = IF Len(existingValue) > 0 THEN 409 ELSE 0])
    /\ UNCHANGED <<router, rawStore, txnStore, handleVars, currentEndpoints,
                   batch, sweep, wireKeys, resp, clientMu, openedBy, table>>

\* handlers.go:286-294  rawKvClient.Put;  handlers.go:338-346
\* txnKvClient.Commit: the commit of an optimistic transaction fails with a
\* write conflict when another transaction has committed a write of the key
\* since this one began, and then marks the transactions that began before it
CreateRequestWrite(p, ok) ==
    /\ At(p, "create", "write")
    /\ LET mode == inflight[p].mode
           wire == makeKey(inflight[p].key)
           done == ok /\ ~inflight[p].conflict
           overtaken(q) == /\ q # p
                           /\ inflight[q].kind = "create"
                           /\ inflight[q].mode = "txn"
                           /\ inflight[q].pc \in {"get", "write"}
       IN /\ rawStore' = IF mode = "rawkv" /\ done
                         THEN StorePut(rawStore, wire, inflight[p].value)
                         ELSE rawStore
          /\ txnStore' = IF mode = "txn" /\ done
                         THEN StorePut(txnStore, wire, inflight[p].value)
                         ELSE txnStore
          /\ inflight' = [q \in Requests |->
                 IF q = p
                 THEN [inflight[p] EXCEPT !.pc = "done",
                                          !.status = IF done THEN 201 ELSE 500]
                 ELSE IF mode = "txn" /\ done /\ overtaken(q)
                 THEN [inflight[q] EXCEPT !.conflict = TRUE]
                 ELSE inflight[q]]
    /\ UNCHANGED <<router, handleVars, currentEndpoints, batch, sweep, wireKeys,
                   resp, clientMu, openedBy, table>>

-----------------------------------------------------------------------------
(* The key table of the frontend (KVTable.tsx).                            *)

\* Scans the table issues in one behaviour.
MaxScans == 3

\* what the search box holds: nothing, "k", "k "
SearchInputs == {<<>>, <<"k">>, <<"k", " ">>}

\* KVTable.tsx:56-64  loadData up to its await: the scan is on its way
loadData(t, page, size, searchPrefix) ==
    [t EXCEPT !.issued = @ + 1,
              !.pending = @ \cup {[id |-> t.issued + 1, page |-> page,
                                   size |-> size, prefix |-> searchPrefix]}]

\* the body of a scan response: the rows of the page asked for (named by
\* prefix, page and size), the number of keys under the prefix and the page
ScanResponse(r) ==
    [data |-> <<[prefix |-> r.prefix, page |-> r.page, size |-> r.size]>>,
     total |-> IF r.prefix = <<>> THEN 3 ELSE 1,
     page |-> r.page]

\* KVTable.tsx:105-111  useEffect on mode: the mount of the table and every
\* change of the mode
TableMount ==
    /\ table.issued < MaxScans
    /\ table' = loadData([table EXCEPT !.pageSize = 100, !.searchInput = <<>>,
                                       !.prefix = <<>>],
                         1, 100, <<>>)
    /\ UNCHANGED <<router, rawStore, txnStore, handleVars, currentEndpoints,
                   batch, sweep, wireKeys, resp, clientMu, inflight, openedBy>>

\* KVTable.tsx:90-102  handleRealTimeSearch: the timer is set anew
handleRealTimeSearch(value) ==
    /\ table.issued < MaxScans
    /\ table' = [table EXCEPT !.searchInput = value,
                              !.debounceRef = [set |-> TRUE, value |-> value]]
    /\ UNCHANGED <<router, rawStore, txnStore, handleVars, currentEndpoints,
                   batch, sweep, wireKeys, resp, clientMu, inflight, openedBy>>

\* KVTable.tsx:97-101  the timer of handleRealTimeSearch fires
DebounceFires ==
    /\ table.debounceRef.set
    /\ table.issued < MaxScans
    /\ LET value == table.debounceRef.value IN
       table' = loadData([table EXCEPT !.prefix = value, !.current = 1,
                                       !.debounceRef = [set |-> FALSE,
                                                        value |-> <<>>]],
                         1, table.pageSize, TrimSpace(value))
    /\ UNCHANGED <<router, rawStore, txnStore, handleVars, currentEndpoints,
                   batch, sweep, wireKeys, resp, clientMu, inflight, openedBy>>

\* KVTable.tsx:123-133  handleSearch
handleSearch(value) ==
    /\ table.issued < MaxScans
    /\ table' = loadData([table EXCEPT !.debounceRef = [set |-> FALSE,
                                                        value |-> <<>>],
                                       !.searchInput = value, !.prefix = value,
                                       !.current = 1],
                         1, table.pageSize, TrimSpace(value))
    /\ UNCHANGED <<router, rawStore, txnStore, handleVars, currentEndpoints,
                   batch, sweep, wireKeys, resp, clientMu, inflight, openedBy>>

\* KVTable.tsx:136-138  handleRefresh
handleRefresh ==
    /\ table.issued < MaxScans
    /\ table' = loadData(table, table.current, table.pageSize, table.prefix)
    /\ UNCHANGED <<router, rawStore, txnStore, handleVars, currentEndpoints,
                   batch, sweep, wireKeys, resp, clientMu, inflight, openedBy>>

\* KVTable.tsx:141-147  handlePageChange; size 0 is a call without a size
handlePageChange(page, size) ==
    /\ table.issued < MaxScans
    /\ table' = loadData([table EXCEPT !.current = page,
                                       !.pageSize = IF size # 0 THEN size ELSE @],
                         page, IF size # 0 THEN size ELSE table.pageSize,
                         table.prefix)
    /\ UNCHANGED <<router, rawStore, txnStore, handleVars, currentEndpoints,
                   batch, sweep, wireKeys, resp, clientMu, inflight, openedBy>>

\* KVTable.tsx:59-86  the await of loadData returns for the scan r: with the
\* result, or with an error
ScanReturns(r, ok) ==
    /\ r \in table.pending
    /\ LET result == ScanResponse(r) IN
       table' = [table EXCEPT
                    !.pending = @ \ {r},
                    !.shown = r.id,
                    !.data = IF ok THEN result.data ELSE <<>>,
                    !.total = IF ok THEN result.total ELSE 0,
                    !.current = IF ok THEN result.page ELSE 1]
    /\ UNCHANGED <<router, rawStore, txnStore, handleVars, currentEndpoints,
                   batch, sweep, wireKeys, resp, clientMu, inflight, openedBy>>

NextTable ==
    \/ TableMount
    \/ \E value \in SearchInputs : handleRealTimeSearch(value)
    \/ DebounceFires
    \/ \E value \in SearchInputs : handleSearch(value)
    \/ handleRefresh
    \/ \E page \in 1..2, size \in {0, 50} : handlePageChange(page, size)
    \/ \E r \in table.pending, ok \in BOOLEAN : ScanReturns(r, ok)

-----------------------------------------------------------------------------
(* Specifications.                                                         *)

NextReconfigure ==
    \/ \E raw \in EndpointInputs, rawOk \in BOOLEAN, txnOk \in BOOLEAN :
           handleUpdateClusterEndpoints(raw, rawOk, txnOk)
    \/ \E rawOk \in BOOLEAN, txnOk \in BOOLEAN :
           apiInitializeTiKVClient(rawOk, txnOk)
    \/ GetClusterStatus

\* the first connection of the process: the initialisation is repeated
\* until both clients are there (reconfiguration of a connected process is
\* the subject of SpecReconfigure)
Connect ==
    \/ /\ rawKvClient = Nil \/ txnClient = Nil
       /\ nextHandle < MaxConnectHandles
       /\ \E rawOk \in BOOLEAN, txnOk \in BOOLEAN :
              handleUpdateClusterEndpoints(ConnectEndpoints, rawOk, txnOk)
    \/ /\ ~IsConnected
       /\ nextHandle < MaxConnectHandles
       /\ \E rawOk \in BOOLEAN, txnOk \in BOOLEAN :
              apiInitializeTiKVClient(rawOk, txnOk)

NextTxn ==
    \/ Connect
    \/ \E ops \in TxnOpLists : \E fail \in Failures(Len(ops)) :
           AtomicTransaction(ops, fail)
    \/ \E ops \in TxnOpLists : handleAtomicTransaction(ops)

NextBatch ==
    \/ Connect
    \/ \E n \in 1..MaxBatchOps : BatchBegin(n)
    \/ \E op \in BatchOps : \E fail \in BatchFailuresOf(op) : BatchStep(op, fail)
    \/ BatchEnd
    \/ \E key \in Keys, mode \in GetModes : handleGetKV(key, mode)
    \/ \E key \in Keys, mode \in GetModes, fail \in GetFailures :
           GetKV(key, mode, fail)

\* the batch requests alone
NextBatchLoop ==
    \/ Connect
    \/ \E n \in 1..MaxBatchOps : BatchBegin(n)
    \/ \E op \in BatchOps : \E fail \in BatchFailuresOf(op) : BatchStep(op, fail)
    \/ BatchEnd

NextSweep ==
    \/ Connect
    \/ \E c \in SweepCreates, fail \in CreateFailures :
           handleCreateKV(c[1], v1, c[2], fail)
    \/ \E c \in SweepCreates, fail \in CreateFailures :
           CreateKV(c[1], v1, c[2], fail)
    \/ \E mode \in GetModes : handleDeleteAllKVs(mode)
    \/ \E fail \in SweepFailures : handleDeleteAllKVsRaw(fail)
    \/ \E fail \in SweepFailures : handleDeleteAllKVsTxn(fail)
    \/ \E mode \in GetModes : DeleteAllKVs(mode)
    \/ \E fail \in SweepFailures : DeleteAllKVsRaw(fail)
    \/ \E fail \in SweepFailures : DeleteAllKVsTxn(fail)

\* the values of single-key writes
KVValues == {v1, v2}

NextKV ==
    \/ Connect
    \/ \E key \in Keys, value \in KVValues, mode \in GetModes,
          fail \in CreateFailures :
           \/ handleCreateKV(key, value, mode, fail)
           \/ handleUpdateKV(key, value, mode, fail)
           \/ CreateKV(key, value, mode, fail)
           \/ UpdateKV(key, value, mode, fail)
    \/ \E key \in Keys, mode \in GetModes, fail \in CreateFailures :
           \/ handleDeleteKV(key, mode, fail)
           \/ DeleteKV(key, mode, fail)
    \/ \E keys \in DeleteKeyLists, mode \in GetModes, failAt \in 1..MaxDeleteKeys,
          fail \in BatchDeleteFailures :
           handleBatchDeleteKVs(keys, mode, failAt, fail)
    \/ \E key \in Keys, mode \in GetModes : handleGetKV(key, mode)
    \/ \E key \in Keys, mode \in GetModes, fail \in GetFailures :
           GetKV(key, mode, fail)

NextScan ==
    \/ Connect
    \/ \E key \in ScanKeys : RawKvPut(key, v1)
    \/ \E key \in TxnScanKeys, val \in KVValues, ok \in BOOLEAN :
           TxnKvSet(key, val, ok)
    \* a scan changes nothing that a request reads: the scans that follow
    \* a scan answer as they would have answered in its place
    \/ /\ resp.op # "scan"
       /\ \E prefix \in ScanPrefixes, pageQ \in ScanPages, limitQ \in ScanLimits,
             mode \in GetModes : \E fail \in ScanFailuresOf(mode) :
              \/ handleScanKVs(prefix, pageQ, limitQ, mode, fail)
              \/ ScanKVs(prefix, pageQ, limitQ, mode, fail)

\* scans of the whole keyspace with every kind of page and limit parameter
NextScanQuery ==
    \/ Connect
    \/ RawKvPut(<<107>>, v1)
    \/ /\ resp.op # "scan"
       /\ \E pageQ \in PageQueries, limitQ \in LimitQueries, mode \in GetModes :
              \/ handleScanKVs(<<>>, pageQ, limitQ, mode, "none")
              \/ ScanKVs(<<>>, pageQ, limitQ, mode, "none")

\* keys of a keyspace that is written in both modes: "k", "k\x00" and "l"
ModeKeys == {<<107>>, <<107, 0>>, <<108>>}

\* the same requests in direct and in transactional mode on main.go's router
NextScanModes ==
    \/ Connect
    \/ \E key \in ModeKeys, mode \in GetModes : handleCreateKV(key, v1, mode, "none")
    \/ /\ resp.op # "scan"
       /\ \E prefix \in {<<>>, <<107>>}, pageQ \in ScanPages, limitQ \in ScanLimits,
             mode \in GetModes :
              handleScanKVs(prefix, pageQ, limitQ, mode, "none")

\* page and limit parameters up to the largest number strconv.Atoi returns
WidePages == {Query(1), Query(2), Query(MaxInt \div 2 + 2)}

WideLimits == {Query(1), Query(2), Query(MaxInt)}

\* scans of main.go's router with page and limit parameters of every size
NextScanWidth ==
    \/ Connect
    \/ \E key \in ModeKeys, mode \in GetModes : handleCreateKV(key, v1, mode, "none")
    \/ /\ resp.op # "scan"
       /\ \E pageQ \in WidePages, limitQ \in WideLimits, mode \in GetModes :
              handleScanKVs(<<>>, pageQ, limitQ, mode, "none")

\* creates of one key served at the same time by the api router
NextCreateRace ==
    \/ Connect
    \/ \E p \in Requests, mode \in GetModes, value \in KVValues :
           CreateRequestBegin(p, mode, value)
    \/ \E p \in Requests : CreateRequestGet(p)
    \/ \E p \in Requests, ok \in BOOLEAN : CreateRequestWrite(p, ok)

\* every request the routers serve
Next ==
    \/ NextReconfigure \/ NextTxn \/ NextBatch \/ NextSweep \/ NextKV \/ NextScan
    \/ NextScanModes \/ NextScanWidth \/ NextSwap \/ NextCreateRace
    \/ NextTable

Spec == Init /\ [][Next]_vars

SpecReconfigure == Init /\ [][NextReconfigure]_vars

SpecKV == Init /\ [][NextKV]_vars

SpecScan == Init /\ [][NextScan]_vars

SpecScanQuery == Init /\ [][NextScanQuery]_vars

SpecSweep == Init /\ [][NextSweep]_vars

SpecBatch == Init /\ [][NextBatch]_vars

SpecBatchLoop == Init /\ [][NextBatchLoop]_vars

SpecTxn == Init /\ [][NextTxn]_vars

SpecScanModes == Init /\ [][NextScanModes]_vars

SpecScanWidth == Init /\ [][NextScanWidth]_vars

SpecSwap == Init /\ [][NextSwap]_vars

SpecCreateRace == Init /\ [][NextCreateRace]_vars

SpecTable == Init /\ [][NextTable]_vars

-----------------------------------------------------------------------------
(* Properties of the atomic transaction.                                   *)

\* C1: a transaction request that returns a failure (a put with an empty
\* value at any position, a failing Set/Delete, a failing Begin or Commit, no
\* client) leaves both stores exactly as they were before the request.
C1_FailureLeavesStore ==
    [][(resp'.op = "transaction" /\ ~resp'.success)
          => (txnStore' = txnStore /\ rawStore' = rawStore)]_vars

\* a request failed after it had staged at least one mutation, in a store
\* that holds a key
C1_Witness ==
    /\ resp.op = "transaction"
    /\ ~resp.success
    /\ resp.staged >= 1
    /\ resp.rolledBack = 1
    /\ DOMAIN txnStore # {}

\* C2: a transaction that was begun for a list holding a delete of a key the
\* store does not hold fails, and nothing of the request persists.
C2_AbsentDeleteFails ==
    [][(resp'.op = "transaction" /\ resp'.begun = 1 /\ resp'.absentDelete)
          => (~resp'.success /\ txnStore' = txnStore)]_vars

\* C3: a transaction request that reports success has begun exactly one
\* transaction and committed it once, the store is the previous store with
\* the N operations applied in order, and operationCount is N.
C3_SuccessIsOneCommit ==
    (resp.op = "transaction" /\ resp.success)
        => /\ resp.begun = 1
           /\ resp.committed = 1
           /\ txnStore = resp.expected
           /\ resp.count = resp.n

-----------------------------------------------------------------------------
(* Properties of batches.                                                  *)

\* C4: the response of a batch of N operations carries exactly N results,
\* the i-th with the key and the kind of the i-th operation, whatever failed
\* on the way; successCount is the number of results that succeeded and
\* successCount + failureCount = N.
C4_OneResultPerOperation ==
    resp.op = "batch"
        => /\ Len(resp.ops) = resp.n
           /\ Len(resp.results) = resp.n
           /\ \A i \in 1..Len(resp.results) :
                 /\ i <= Len(resp.ops)
                 /\ resp.results[i].key = resp.ops[i].key
                 /\ resp.results[i].operation =
                        (IF resp.ops[i].value = <<>> THEN "delete" ELSE "put")
           /\ resp.successCount = CountResults(resp.results, TRUE)
           /\ resp.successCount + resp.failureCount = resp.n

\* a batch of two operations answered with one success after one failure
\* for want of a client
C4_Witness ==
    /\ resp.op = "batch"
    /\ resp.n = 2
    /\ Len(resp.results) = 2
    /\ resp.results[1].error = "not initialized"
    /\ resp.results[2].success
    /\ resp.successCount = 1
    /\ resp.failureCount = 1

\* the batch [put(k1, v1), delete(k2)] in direct mode, answered with a
\* success for k1 and a failure for k2
C5_BatchAnswered ==
    /\ resp.op = "batch"
    /\ resp.ops = << [type |-> "rawkv", key |-> k1, value |-> v1],
                     [type |-> "rawkv", key |-> k2, value |-> <<>>] >>
    /\ resp.results[1].success
    /\ ~resp.results[2].success

\* C5: the operations of a batch are independent; after the batch
\* [put(k1, v1), delete(k2)] with k2 absent has reported success for k1 and
\* failure for k2, the put is not undone and a get of k1 that the backend
\* serves returns v1.
C5_BatchIndependence ==
    [][(C5_BatchAnswered /\ resp'.op = "get" /\ resp'.key = k1
           /\ resp'.mode = "rawkv" /\ resp'.status # 500)
          => (resp'.success /\ resp'.value = v1)]_vars

-----------------------------------------------------------------------------
(* Properties of the key namespace and of deleteAll.                       *)

\* C8: every key and every range bound that a request sends to a client
\* handle starts with the isolation prefix.
C8_WireKeysPrefixed ==
    \A k \in wireKeys : HasPrefix(k, TiKVWebKeyPrefix)

\* C9: a direct-mode deleteAll that met no backend failure, begun with M keys
\* in the direct-mode store, never counts more than M deletions, answers
\* success with deletedCount = M, and a scan of everything then finds no key.
C9_DirectSweepComplete ==
    /\ (sweep.active /\ sweep.mode = "rawkv") => sweep.deletedCount <= sweep.m
    /\ (resp.op = "deleteAll" /\ resp.mode = "rawkv" /\ resp.status # 503
           /\ ~resp.failed)
          => /\ resp.success
             /\ resp.count = resp.n
             /\ scanAllKeys(rawStore) = <<>>

\* C10: a transactional deleteAll that met no backend failure, begun with M
\* keys of any names in the transactional store, never counts more than M
\* deletions, answers success with deletedCount = M, and leaves no key in
\* the transactional store.
C10_TxnSweepComplete ==
    /\ (sweep.active /\ sweep.mode = "txn") => sweep.deletedCount <= sweep.m
    /\ (resp.op = "deleteAll" /\ resp.mode = "txn" /\ resp.status # 503
           /\ ~resp.failed)
          => /\ resp.success
             /\ resp.count = resp.n
             /\ scanAllKeys(txnStore) = <<>>

-----------------------------------------------------------------------------
(* Properties of reconfiguration.                                          *)

\* C6: a reconfiguration that fails leaves both current handles the objects
\* they were and closes neither; with no handle before, none after.
C6_NoPartialSwap ==
    [][(resp'.op = "reconfigure" /\ ~resp'.success)
          => /\ RawKVClient' = RawKVClient
             /\ TxnKVClient' = TxnKVClient
             /\ rawKvClient' = rawKvClient
             /\ txnClient' = txnClient
             /\ tikv_rawKvClient' = tikv_rawKvClient
             /\ tikv_txnKvClient' = tikv_txnKvClient
             /\ closed' = closed]_vars

\* C7: a failed reconfiguration (list rejected, or cluster unreachable)
\* leaves the endpoint set that the cluster status reports as it was, and
\* the status still reports connected if it did before; the reported endpoint
\* set changes only in a reconfiguration that succeeds.
C7_StatusKeptOnFailure ==
    [][/\ (resp'.op = "reconfigure" /\ ~resp'.success)
             => /\ StatusEndpoints' = StatusEndpoints
                /\ StatusConnected => StatusConnected'
       /\ StatusEndpoints' # StatusEndpoints
             => (resp'.op = "reconfigure" /\ resp'.success)]_vars

\* a reconfiguration failed at the cluster after an earlier one had recorded
\* an endpoint list
C7_Witness ==
    /\ resp.op = "reconfigure"
    /\ resp.status = 503
    /\ router = "main"
    /\ currentEndpoints # <<>>
    /\ closed # {}

-----------------------------------------------------------------------------
(* Properties of a deleteAll that fails on the way.                        *)

\* C11: a deleteAll stopped by a backend error after it has deleted keys
\* answers with the deletedCount it has accumulated, which is the number of
\* keys that are gone from the store of its mode.
C11_ErrorCarriesCount ==
    (resp.op = "deleteAll" /\ resp.status = 500 /\ resp.staged >= 1)
        => /\ resp.counted
           /\ resp.count = resp.staged
           /\ resp.staged = resp.n - Cardinality(DOMAIN (IF resp.mode = "rawkv"
                                                         THEN rawStore ELSE txnStore))

-----------------------------------------------------------------------------
(* Properties of single-key requests.                                      *)

\* C12: a get that the backend serves, made right after a successful put
\* (create or update) of a non-empty value under the same key in the same
\* mode, returns exactly that value.
C12_PutThenGet ==
    [][(resp.op \in {"create", "update"} /\ resp.success
           /\ resp'.op = "get" /\ resp'.key = resp.key /\ resp'.mode = resp.mode
           /\ resp'.status # 500)
          => (resp'.success /\ resp'.value = resp.written)]_vars

\* C13: a get that the backend serves, made right after a successful delete
\* of the same key in the same mode, answers not found.
C13_DeleteThenGet ==
    [][(resp.op = "delete" /\ resp.success
           /\ resp'.op = "get" /\ resp'.key = resp.key /\ resp'.mode = resp.mode
           /\ resp'.status # 500)
          => (~resp'.success /\ resp'.status = 404)]_vars

-----------------------------------------------------------------------------
(* Properties of scans.                                                    *)

\* C14: a direct-mode scan of prefix P for page 1 with a limit of at least
\* the number N of keys that start with P returns exactly those N keys, in
\* ascending byte order, each with its stored value, whatever other keys
\* the store holds.
C14_PrefixScanExact ==
    (resp.op = "scan" /\ resp.mode = "rawkv" /\ resp.there /\ ~resp.failed
        /\ resp.page = 1 /\ resp.limit >= Len(resp.expected))
        => (resp.success /\ resp.items = resp.expected)

\* the least of two numbers
Min(a, b) == IF a < b THEN a ELSE b

\* no key of the listing holds the byte 0xFF (the keys that C14 is about)
NoHighByte(listing) ==
    \A i \in 1..Len(listing) : \A j \in 1..Len(listing[i].Key) :
        listing[i].Key[j] # 255

\* C15: with T keys under the prefix and page size S, page p of the
\* pages 1..ceil(T/S) holds exactly the elements [(p-1)*S, min(p*S, T)) of
\* the ordered listing, so that the pages in turn give each key once
\* (stated for listings without the byte 0xFF, which every range holds).
C15_PageIsSlice ==
    (resp.op = "scan" /\ resp.mode = "rawkv" /\ resp.there /\ ~resp.failed
        /\ NoHighByte(resp.expected)
        /\ (resp.page - 1) * resp.limit < Len(resp.expected))
        => (resp.success
            /\ resp.items = SubSeq(resp.expected, (resp.page - 1) * resp.limit + 1,
                                   Min(resp.page * resp.limit, Len(resp.expected))))

\* C16: once TxnKv.Set has committed a value under the logical key K, a
\* transactional scan of a prefix of K (first page, limit not below the
\* number of stored keys) returns an entry whose key is K with that value.
C16_TxnScanNamesKey ==
    [][(resp'.op = "scan" /\ resp'.mode = "txn" /\ resp'.there /\ ~resp'.failed
           /\ resp'.page = 1 /\ resp'.limit >= Cardinality(DOMAIN txnStore)
           /\ txnStore' = txnStore)
          => \A K \in TxnScanKeys :
                 (makeKey(K) \in DOMAIN txnStore /\ HasPrefix(K, resp'.key))
                     => \E i \in 1..Len(resp'.items) :
                            resp'.items[i] = [Key |-> K, Value |-> txnStore[makeKey(K)]]]_vars

\* C20: a scan for a mode whose client is not there is answered with the
\* Unavailable error (503) and never with a successful page.
C20_ScanUnavailable ==
    (resp.op = "scan" /\ ~resp.there) => (~resp.success /\ resp.status = 503)

-----------------------------------------------------------------------------
(* Properties of single-key writes.                                        *)

\* C17: a create request for a key that holds a value in the requested mode
\* leaves the stores as they are and, unless the backend failed or the
\* client was not there (400, 500, 503), answers conflict (409); it answers
\* ok only when the key was absent before the call.
C17_CreateOnlyWhenAbsent ==
    [][resp'.op = "create"
          => LET existed == wireKey(resp'.key) \in DOMAIN StoreOf(resp'.mode)
             IN /\ existed => (rawStore' = rawStore /\ txnStore' = txnStore)
                /\ (existed /\ resp'.status \notin {400, 500, 503}) => resp'.status = 409
                /\ resp'.success => ~existed]_vars

\* C18: an update request for a key that is absent in the requested mode
\* leaves the stores as they are and, unless the backend failed or the
\* client was not there (400, 500, 503), answers not-found (404); it
\* answers ok only when the key existed, and then the key holds the new
\* value.
C18_UpdateOnlyWhenPresent ==
    [][resp'.op = "update"
          => LET existed == wireKey(resp'.key) \in DOMAIN StoreOf(resp'.mode)
                 after == IF resp'.mode = "rawkv" THEN rawStore' ELSE txnStore'
             IN /\ ~existed => (rawStore' = rawStore /\ txnStore' = txnStore)
                /\ (~existed /\ resp'.status \notin {400, 500, 503}) => resp'.status = 404
                /\ resp'.success
                       => (existed /\ StoreGet(after, wireKey(resp'.key)) = resp'.written)]_vars

\* C19: a transactional create, update or delete is answered as a success
\* only if its transaction began and committed, and a transactional batch
\* delete counts as deleted only keys whose transaction committed.
C19_TxnSuccessMeansCommitted ==
    /\ (resp.op \in {"create", "update", "delete"} /\ resp.mode = "txn" /\ resp.success)
           => (resp.begun = 1 /\ resp.committed = 1)
    /\ (resp.op = "batchDelete" /\ resp.mode = "txn")
           => resp.count <= resp.committed

\* C21: a transactional scan in which the creation of the iterator or an
\* advance of the iterator failed is answered as a failure, never as a
\* success with the pairs collected before the failure.
C21_IteratorFailureFailsScan ==
    (resp.op = "scan" /\ resp.mode = "txn" /\ resp.failed) => ~resp.success

\* C28: a transactional scan that began a transaction has rolled it back
\* and has not committed it when it answers, on every path.
C28_TxnScanRollsBack ==
    (resp.op = "scan" /\ resp.mode = "txn" /\ resp.begun = 1)
        => (resp.committed = 0 /\ resp.rolledBack = 1)

-----------------------------------------------------------------------------
(* Properties of the reported endpoint set.                                *)

\* C22: the endpoint set that a cluster-status request reports is never
\* empty and each of its entries holds a ':', also before the first
\* reconfiguration.
C22_StatusEndpointsValid ==
    resp.op = "status"
        => /\ resp.endpoints # <<>>
           /\ \A i \in 1..Len(resp.endpoints) : Contains(resp.endpoints[i], ":")

\* C23: a scan request that is served has a page number of at least 1 and a
\* page size of 1 to 100, and the page size 20 when the request gives none.
C23_ScanParamsBounded ==
    (resp.op = "scan" /\ resp.there /\ resp.status = 200)
        => /\ resp.page >= 1
           /\ resp.limit >= 1
           /\ resp.limit <= LimitCap
           /\ ~resp.query[2].given => resp.limit = DefaultLimit

\* C24: an operation of a batch whose mode has no client gets a failed
\* result saying the client is not initialized, nothing is sent to a client
\* for it and the stores stay as they are; the loop goes on, and the
\* response is sent only when every operation of the request has its result.
C24_UnavailableClientSkipped ==
    [][/\ (batch.active /\ batch'.active /\ Len(batch'.ops) = Len(batch.ops) + 1
             /\ ~BatchClientThere(batch'.ops[Len(batch'.ops)].type))
          => /\ Len(batch'.results) = Len(batch.results) + 1
             /\ ~batch'.results[Len(batch'.results)].success
             /\ batch'.results[Len(batch'.results)].error = "not initialized"
             /\ wireKeys' = wireKeys
             /\ rawStore' = rawStore
             /\ txnStore' = txnStore
       /\ (batch.active /\ ~batch'.active)
          => /\ Len(batch.ops) = batch.n
             /\ Len(resp'.results) = batch.n]_vars

\* a batch whose first operation, transactional, found no client and whose
\* second, direct, was sent and stored its value
C24_Witness ==
    /\ resp.op = "batch"
    /\ resp.n = 2
    /\ resp.ops[1].type = "txn"
    /\ resp.results[1].error = "not initialized"
    /\ resp.ops[2].type = "rawkv"
    /\ resp.ops[2].value # <<>>
    /\ resp.results[2].success
    /\ wireKeys # {}
    /\ rawStore # << >>

\* C25: an operation of a batch is a put exactly when its value is not
\* empty and a delete otherwise: its result reports that kind, a put changes
\* the store of its mode at most by storing the value under the key, a
\* delete at most by removing the key, a success means the change was made,
\* and no batch stores an empty value.
C25_KindFromValue ==
    [][(batch.active /\ batch'.active /\ Len(batch'.ops) = Len(batch.ops) + 1)
          => LET op == batch'.ops[Len(batch'.ops)]
                 res == batch'.results[Len(batch'.results)]
                 key == wireKey(op.key)
                 before == StoreOf(op.type)
                 after == IF op.type = "rawkv" THEN rawStore' ELSE txnStore'
             IN /\ Len(batch'.results) = Len(batch.results) + 1
                /\ res.operation = (IF op.value # <<>> THEN "put" ELSE "delete")
                /\ op.type = "rawkv" => txnStore' = txnStore
                /\ op.type = "txn" => rawStore' = rawStore
                /\ op.value # <<>>
                      => /\ after \in {before, StorePut(before, key, op.value)}
                         /\ res.success => StoreGet(after, key) = op.value
                /\ op.value = <<>>
                      => /\ after \in {before, StoreDelete(before, key)}
                         /\ res.success => ~Present(after, key)
                /\ \A k \in DOMAIN after : after[k] # <<>>]_vars

\* a batch of a put and a delete of the same key, both served: the store of
\* the mode is empty again
C25_Witness ==
    /\ resp.op = "batch"
    /\ resp.n = 2
    /\ resp.ops[1].value # <<>>
    /\ resp.ops[2].value = <<>>
    /\ resp.ops[1].type = resp.ops[2].type
    /\ resp.results[1].operation = "put"
    /\ resp.results[1].success
    /\ resp.results[2].operation = "delete"
    /\ resp.results[2].success
    /\ StoreOf(resp.ops[1].type) = << >>

\* the sequence of calls holds a call of the given name
HasCall(calls, name) == \E i \in 1..Len(calls) : calls[i].call = name

\* C27: a delete of a batch that succeeds has first read the key and found
\* it with a value, and has then removed it; a delete whose read fails or
\* finds nothing is recorded as failed with 'Key not found', sends no delete
\* and leaves both stores as they were.
C27_DeleteOnlyWhenFound ==
    [][(batch.active /\ batch'.active /\ Len(batch'.ops) = Len(batch.ops) + 1
           /\ batch'.ops[Len(batch'.ops)].value = <<>>)
          => LET op == batch'.ops[Len(batch'.ops)]
                 res == batch'.results[Len(batch'.results)]
                 calls == batch'.calls
                 key == wireKey(op.key)
                 before == StoreOf(op.type)
                 after == IF op.type = "rawkv" THEN rawStore' ELSE txnStore'
             IN /\ res.success
                      => /\ Present(before, key)
                         /\ before[key] # <<>>
                         /\ ~Present(after, key)
                         /\ \E i, j \in 1..Len(calls) :
                               /\ i < j
                               /\ calls[i] = Call("Get", TRUE)
                               /\ calls[j] = Call("Delete", TRUE)
                /\ (HasCall(calls, "Get")
                       /\ (~Present(before, key) \/ \E i \in 1..Len(calls) : calls[i] = Call("Get", FALSE)))
                      => /\ ~res.success
                         /\ res.error = "Key not found"
                         /\ ~HasCall(calls, "Delete")
                         /\ rawStore' = rawStore
                         /\ txnStore' = txnStore]_vars

\* a batch of two deletes is in its loop: the first found no key, the second
\* found its key and has removed it
C27_Witness ==
    /\ batch.active
    /\ Len(batch.ops) = 2
    /\ batch.ops[1].value = <<>>
    /\ batch.results[1].error = "Key not found"
    /\ batch.ops[2].value = <<>>
    /\ batch.results[2].success
    /\ HasCall(batch.calls, "Get")
    /\ HasCall(batch.calls, "Delete")

\* C26: a transaction that an operation of a batch has begun is committed or
\* rolled back when the loop moves on: the last call of the operation is a
\* commit that succeeded or a rollback, so a commit that failed is followed
\* by a rollback.
C26_TxnTerminated ==
    (batch.active /\ HasCall(batch.calls, "Begin")
        /\ batch.calls[1] = Call("Begin", TRUE))
        => batch.calls[Len(batch.calls)] \in
               {Call("Commit", TRUE), Call("Rollback", TRUE)}

\* C29: a scan that is served with T keys under its prefix (none of them
\* with the byte 0xFF), page p and page size S reports total = min(T, p*S),
\* the number of pairs its bounded scan has seen, and totalPages =
\* ceil(total / S); a page beyond the last, (p-1)*S >= T, is empty with
\* total = T.
C29_TotalIsScanned ==
    (resp.op = "scan" /\ resp.there /\ resp.status = 200 /\ ~resp.failed
        /\ NoHighByte(resp.expected))
        => LET T == Len(resp.expected)
               p == resp.page
               S == resp.limit
           IN /\ resp.total = Min(T, p * S)
              /\ resp.totalPages = (resp.total + S - 1) \div S
              /\ (p - 1) * S >= T => (resp.items = <<>> /\ resp.total = T)

-----------------------------------------------------------------------------
(* Properties of the passes of deleteAll.                                  *)

\* C30: a pass of a deleteAll loop removes at most the batch size of its
\* mode from the store and only removes: what earlier passes have deleted
\* stays deleted whatever the pass meets; the pass of main.go's loops sends
\* at most the batch size of keys to be deleted, in transactional mode the
\* deletes staged in its one transaction.
C30_SweepInChunks ==
    [][sweep.active
          => LET before == StoreOf(sweep.mode)
                 after == IF sweep.mode = "rawkv" THEN rawStore' ELSE txnStore'
                 removed == DOMAIN before \ DOMAIN after
                 batchSize == IF sweep.mode = "rawkv" THEN RawBatchSize
                                                      ELSE TxnBatchSize
                 range == prefixedRange(<<>>)
                 sent == wireKeys' \ (wireKeys \cup {sweep.scanStart, range[1], range[2]})
             IN /\ Cardinality(removed) <= batchSize
                /\ after = StoreDeleteAll(before, removed)
                /\ sweep.mode = "rawkv" => txnStore' = txnStore
                /\ sweep.mode = "txn" => rawStore' = rawStore
                /\ router = "main" => Cardinality(sent) <= batchSize]_vars

\* a transactional deleteAll of main.go's router that began with more keys
\* than a batch has failed in a later pass: the first chunk is gone, the rest
\* is still stored
C30_Witness ==
    /\ router = "main"
    /\ resp.op = "deleteAll"
    /\ resp.mode = "txn"
    /\ resp.status = 500
    /\ resp.n > TxnBatchSize
    /\ Cardinality(DOMAIN txnStore) = resp.n - TxnBatchSize

-----------------------------------------------------------------------------
(* Properties of the end of deleteAll.                                     *)

\* C31: a deleteAll returns at the first backend failure it meets: its loop
\* never makes another pass after a Begin, a scan, a read, a delete or a
\* commit has failed, and the request whose loop met a failure is answered
\* with the error.
C31_SweepStopsAtFirstError ==
    /\ sweep.active => ~sweep.failed
    /\ (resp.op = "deleteAll" /\ resp.failed) => resp.status = 500

\* C32: the start key of the direct-mode deleteAll only moves forward: a pass
\* that is followed by another has scanned at least one key, the next scan
\* starts at the last key of the batch followed by the byte 0x00, which is
\* after the former start and after every key of the batch, and not after
\* any key of the range that the batch has left out.
C32_CursorAdvances ==
    [][(sweep.active /\ sweep.mode = "rawkv" /\ sweep'.active)
          => LET start(s) == IF router = "main" THEN s.scanStart
                                                ELSE makeKey(s.scanStart)
                 endKey == IF router = "main" THEN prefixedRange(<<>>)[2]
                           ELSE makeKey(<<255, 255, 255, 255>>)
                 batchKeys == Scan(rawStore, start(sweep), endKey, RawBatchSize)
                 left == KeySet(RangeKeys(rawStore, start(sweep), endKey))
                             \ KeySet(batchKeys)
             IN /\ batchKeys # <<>>
                /\ start(sweep') = batchKeys[Len(batchKeys)] \o <<0>>
                /\ Less(start(sweep), start(sweep'))
                /\ \A k \in KeySet(batchKeys) : Less(k, start(sweep'))
                /\ \A k \in left : Leq(start(sweep'), k)]_vars

\* C35: a key that a scan of the direct-mode deleteAll has returned is sent
\* to the delete as the scan returned it: every key that a pass sends to the
\* handle besides the bounds of its scan is a key of its batch, a key of the
\* store, and none carries the key prefix twice.
C35_KeyWrappedOnce ==
    [][(sweep.active /\ sweep.mode = "rawkv")
          => LET start == IF router = "main" THEN sweep.scanStart
                                             ELSE makeKey(sweep.scanStart)
                 endKey == IF router = "main" THEN prefixedRange(<<>>)[2]
                           ELSE makeKey(<<255, 255, 255, 255>>)
                 batchKeys == Scan(rawStore, start, endKey, RawBatchSize)
                 sent == wireKeys' \ (wireKeys \cup {start, endKey})
             IN /\ sent \subseteq KeySet(batchKeys)
                /\ \A k \in sent : ~HasPrefix(k, makeKey(TiKVWebKeyPrefix))]_vars

-----------------------------------------------------------------------------
(* Properties of the two scans of main.go.                                 *)

C39_SliceWithinBounds ==
    (router = "main" /\ resp.op = "scan" /\ resp.there /\ ~resp.failed)
        => /\ resp.slice.offset = (resp.page - 1) * resp.limit
           /\ resp.mode = "rawkv" => resp.slice.bound = resp.page * resp.limit
           /\ resp.slice.taken
                 => /\ 0 <= resp.slice.start
                    /\ resp.slice.start <= resp.slice.end
                    /\ resp.slice.end <= resp.slice.scanned

-----------------------------------------------------------------------------
(* Properties of requests served at the same time.                         *)

\* C33: the two current handles are swapped as one step: a handler that has
\* read a direct-mode handle and a transactional handle has read handles
\* opened by the same reconfiguration request, and once every
\* reconfiguration request is answered the two current handles and, on
\* main.go's router, the endpoint list reported come from the same request.
C33_HandlesSwappedTogether ==
    /\ \A p \in Requests :
           (inflight[p].raw # Nil /\ inflight[p].txn # Nil)
               => openedBy[inflight[p].raw] = openedBy[inflight[p].txn]
    /\ (/\ \A p \in Requests : inflight[p].kind = "reconfigure"
                                   => inflight[p].pc = "done"
        /\ RawKVClient # Nil
        /\ TxnKVClient # Nil)
           => /\ openedBy[RawKVClient] = openedBy[TxnKVClient]
              /\ router = "main"
                    => currentEndpoints = RequestEndpoints(openedBy[RawKVClient])

\* C34: a handler reads a handle variable only while it holds clientMu, and
\* a reconfiguration request holds clientMu only between its swap of a handle
\* variable and the unlock that follows, never while it opens or closes a
\* handle.
C34_ReadsUnderLock ==
    /\ \A p \in Requests : ~inflight[p].unlockedRead
    /\ \A p \in Requests :
           clientMu = p => /\ inflight[p].kind = "reconfigure"
                           /\ inflight[p].pc \in {"unlockRaw", "unlockTxn"}

\* C36: no request calls a handle that has been closed.
C36_NoCallOnClosedHandle ==
    \A p \in Requests : ~inflight[p].onClosed

\* C37: of the creates of one key in one mode that the api router serves at
\* the same time, the key being absent before, at most one is answered 201,
\* and the key then holds the value of that request.
C37_OneCreateWins ==
    \A p \in Requests :
        (inflight[p].kind = "create" /\ inflight[p].status = 201)
            => /\ \A q \in Requests \ {p} :
                      ~(/\ inflight[q].kind = "create"
                        /\ inflight[q].mode = inflight[p].mode
                        /\ inflight[q].status = 201)
               /\ StoreGet(StoreOf(inflight[p].mode), makeKey(inflight[p].key))
                      = inflight[p].value

-----------------------------------------------------------------------------
(* Properties of the key table.                                            *)

\* C40: the key table shows the response of the latest scan it has issued
\* among those that were answered: a response that arrives after the
\* response of a scan issued later does not replace what the table shows,
\* and once every scan is answered the table shows the last one issued.
C40_LatestScanShown ==
    LET answered == (1..table.issued) \ {r.id : r \in table.pending}
    IN answered # {}
           => /\ table.shown \in answered
              /\ \A id \in answered : id <= table.shown

=============================================================================
